---- MODULE Spec2Model ----
(***************************************************************************)
(* Site Tomograph: the crawl engine of src/crawler.py.                     *)
(*                                                                         *)
(* Strings are sequences of tokens.  A token stands for one lexeme of a    *)
(* URL: a delimiter character (":", "/", "?", "#") or a word of letters    *)
(* ("http", "https", "mailto", the host names "h" and "o", the path words  *)
(* "a" and "..").  The URL functions below work on these sequences the way *)
(* urllib.parse works on characters.  The crawler's URLs stay inside this  *)
(* alphabet; the section on security.py adds the lexemes of a netloc.      *)
(***************************************************************************)
EXTENDS Integers, Sequences, FiniteSets, TLC

\* ------------------------------------------------------------------------
\* Bounds of the model
\* ------------------------------------------------------------------------
MaxTailLen == 4

\* ------------------------------------------------------------------------
\* String helpers (str.find, str.split, str.join over token sequences)
\* ------------------------------------------------------------------------
Null == <<"null">>

FindFirst(s, T) ==
  LET I == {i \in 1..Len(s) : s[i] \in T}
  IN  IF I = {} THEN 0 ELSE CHOOSE i \in I : \A j \in I : i <= j

RECURSIVE SplitBy(_, _)
SplitBy(s, d) ==
  LET i == FindFirst(s, {d})
  IN  IF i = 0 THEN <<s>>
      ELSE <<SubSeq(s, 1, i - 1)>> \o SplitBy(SubSeq(s, i + 1, Len(s)), d)

RECURSIVE JoinBy(_, _)
JoinBy(segs, d) ==
  IF Len(segs) = 0 THEN <<>>
  ELSE IF Len(segs) = 1 THEN segs[1]
  ELSE segs[1] \o <<d>> \o JoinBy(Tail(segs), d)

StartsWith(s, p) == Len(s) >= Len(p) /\ SubSeq(s, 1, Len(p)) = p

EndsWith(s, t) == Len(s) >= 1 /\ s[Len(s)] = t

\* ------------------------------------------------------------------------
\* urllib.parse, as called by SiteCrawler._normalize_url
\* ------------------------------------------------------------------------
AlphaTokens == {"http", "https", "mailto", "a", "h", "o"}

SchemeChars == AlphaTokens \cup {"..", "."}

uses_relative == {<<>>, <<"http">>, <<"https">>}

uses_netloc == {<<>>, <<"http">>, <<"https">>}

\* urlsplit finds a scheme: a ":" after an alphabetic start and scheme characters
HasScheme(url) ==
  /\ FindFirst(url, {":"}) > 1
  /\ url[1] \in AlphaTokens
  /\ \A k \in 1..(FindFirst(url, {":"}) - 1) : url[k] \in SchemeChars

SchemeOf(url, scheme) ==
  IF HasScheme(url) THEN SubSeq(url, 1, FindFirst(url, {":"}) - 1) ELSE scheme

AfterScheme(url) ==
  IF HasScheme(url) THEN SubSeq(url, FindFirst(url, {":"}) + 1, Len(url)) ELSE url

\* _splitnetloc(url, 2): the netloc runs to the first "/", "?" or "#"
NetlocEnd(r) ==
  IF FindFirst(r, {"/", "?", "#"}) = 0 THEN Len(r) + 1
  ELSE FindFirst(r, {"/", "?", "#"})

NetlocOf(u) ==
  IF StartsWith(u, <<"/", "/">>)
  THEN SubSeq(u, 3, 1 + NetlocEnd(SubSeq(u, 3, Len(u))))
  ELSE <<>>

AfterNetloc(u) ==
  IF StartsWith(u, <<"/", "/">>)
  THEN SubSeq(u, 2 + NetlocEnd(SubSeq(u, 3, Len(u))), Len(u))
  ELSE u

\* str.split(d, 1): the part before the first d, and the part after it
Before(u, d) ==
  IF FindFirst(u, {d}) = 0 THEN u ELSE SubSeq(u, 1, FindFirst(u, {d}) - 1)

After(u, d) ==
  IF FindFirst(u, {d}) = 0 THEN <<>> ELSE SubSeq(u, FindFirst(u, {d}) + 1, Len(u))

ParseTail(sch, net, u) ==
  [scheme |-> sch, netloc |-> net, path |-> Before(Before(u, "#"), "?"),
   query |-> After(Before(u, "#"), "?"), fragment |-> After(u, "#")]

ParseRest(sch, u) == ParseTail(sch, NetlocOf(u), AfterNetloc(u))

\* urlparse(url, scheme): scheme, netloc, path, query, fragment
urlparse(url, scheme) == ParseRest(SchemeOf(url, scheme), AfterScheme(url))

WithNetloc(scheme, netloc, path) ==
  \/ netloc # <<>>
  \/ (scheme # <<>> /\ scheme \in uses_netloc /\ ~StartsWith(path, <<"/", "/">>))

SlashPath(path) ==
  IF path # <<>> /\ path[1] # "/" THEN <<"/">> \o path ELSE path

urlunparse(scheme, netloc, path, query, fragment) ==
  (IF scheme # <<>> THEN scheme \o <<":">> ELSE <<>>)
  \o (IF WithNetloc(scheme, netloc, path)
      THEN <<"/", "/">> \o netloc \o SlashPath(path) ELSE path)
  \o (IF query # <<>> THEN <<"?">> \o query ELSE <<>>)
  \o (IF fragment # <<>> THEN <<"#">> \o fragment ELSE <<>>)

\* segments[1:-1] = filter(None, segments[1:-1])
FilterInterior(segs) ==
  IF Len(segs) <= 2 THEN segs
  ELSE <<segs[1]>>
       \o SelectSeq(SubSeq(segs, 2, Len(segs) - 1), LAMBDA x : x # <<>>)
       \o <<segs[Len(segs)]>>

\* the loop over segments that fills resolved_path
RECURSIVE ResolveSegments(_, _)
ResolveSegments(segs, acc) ==
  IF segs = <<>> THEN acc
  ELSE IF Head(segs) = <<"..">>
  THEN ResolveSegments(Tail(segs),
         IF acc = <<>> THEN acc ELSE SubSeq(acc, 1, Len(acc) - 1))
  ELSE IF Head(segs) = <<".">>
  THEN ResolveSegments(Tail(segs), acc)
  ELSE ResolveSegments(Tail(segs), Append(acc, Head(segs)))

\* base_parts: the directory of the base path
BaseParts(parts) ==
  IF parts[Len(parts)] # <<>> THEN SubSeq(parts, 1, Len(parts) - 1) ELSE parts

Segments(bpath, path) ==
  IF path[1] = "/" THEN SplitBy(path, "/")
  ELSE FilterInterior(BaseParts(SplitBy(bpath, "/")) \o SplitBy(path, "/"))

ResolvedPath(segments) ==
  JoinBy(IF segments[Len(segments)] \in {<<".">>, <<"..">>}
         THEN Append(ResolveSegments(segments, <<>>), <<>>)
         ELSE ResolveSegments(segments, <<>>), "/")

OrRoot(path) == IF path = <<>> THEN <<"/">> ELSE path

JoinParsed(url, b, u) ==
  IF u.scheme # b.scheme \/ u.scheme \notin uses_relative THEN url
  ELSE IF u.scheme \in uses_netloc /\ u.netloc # <<>>
  THEN urlunparse(u.scheme, u.netloc, u.path, u.query, u.fragment)
  ELSE IF u.path = <<>>
  THEN urlunparse(u.scheme,
                  IF u.scheme \in uses_netloc THEN b.netloc ELSE u.netloc,
                  b.path,
                  IF u.query = <<>> THEN b.query ELSE u.query,
                  u.fragment)
  ELSE urlunparse(u.scheme,
                  IF u.scheme \in uses_netloc THEN b.netloc ELSE u.netloc,
                  OrRoot(ResolvedPath(Segments(b.path, u.path))),
                  u.query, u.fragment)

JoinBase(url, b) == JoinParsed(url, b, urlparse(url, b.scheme))

urljoin(base, url) ==
  IF base = <<>> THEN url
  ELSE IF url = <<>> THEN base
  ELSE JoinBase(url, urlparse(base, <<>>))

\* ------------------------------------------------------------------------
\* SiteCrawler._normalize_url
\* ------------------------------------------------------------------------
SameSite_Always(parsed, domain, scheme) == TRUE

\* line 85: the netloc alone decides, the scheme is not compared
SameSite(parsed, domain, scheme) == parsed.netloc = domain

StripSlash_Never(normalized, path) == normalized

\* lines 92-93: one trailing slash goes, unless the path is a single character
StripSlash(normalized, path) ==
  IF EndsWith(normalized, "/") /\ Len(path) > 1
  THEN SubSeq(normalized, 1, Len(normalized) - 1)
  ELSE normalized

\* lines 81-95, for the parsed full URL
NormalizeParsed(parsed, domain, scheme) ==
  IF parsed.scheme \notin {<<"http">>, <<"https">>} THEN Null
  ELSE IF ~SameSite(parsed, domain, scheme) THEN Null
  ELSE StripSlash(parsed.scheme \o <<":", "/", "/">> \o parsed.netloc
                    \o parsed.path, parsed.path)

_normalize_url(url, base_url, domain, scheme) ==
  NormalizeParsed(urlparse(urljoin(base_url, url), <<>>), domain, scheme)

\* ------------------------------------------------------------------------
\* The crawled site and the answers of its server (the environment)
\* ------------------------------------------------------------------------
MaxDepthBound == 2

MaxPagesBound == 4

MaxRetriesBound == 2

\* how many times in one crawl the server may start to answer other than
\* 200, fast, parseable (the same answer again on a retry is the same fault)
MaxFaults == 1

DefaultMaxConcurrent == 3

LatencyThreshold == 2000

Origin == <<"https", ":", "/", "/", "h">>

\* the start URL is stored as it is given (lines 37 and 256): the site's root
\* with and without its slash, and a page address ending in a slash
StartUrls == {Origin, Origin \o <<"/">>, Origin \o <<"/", "a", "/">>}

\* the href attributes of the anchors of the page served at a path
BodyAt(p) ==
      IF p \in {<<>>, <<"/">>}
      THEN {<<"/">>, <<"/", "a", "/">>, <<"/", "a", "?", "a", "#", "a">>,
            <<"https", ":", "/", "/", "o", "/", "a">>}
      ELSE IF p = <<"/", "a">>
      THEN {<<"b">>, <<"/", "a", "/">>, <<"http", ":", "/", "/", "h", "/", "a">>,
            <<"mailto", ":", "a">>}
      ELSE IF p = <<"/", "b">>
      THEN {<<"/", "a", "/", "/">>, <<"..">>}
      ELSE {}

Body(url) == BodyAt(urlparse(url, <<>>).path)

\* what one HTTP GET can do: answer with a status and a latency, time out,
\* or fail with another exception
Responses ==
  {[kind |-> "http", code |-> 200, latency |-> 2000, body_ok |-> TRUE],
   [kind |-> "http", code |-> 200, latency |-> 2001, body_ok |-> TRUE],
   [kind |-> "http", code |-> 200, latency |-> 2000, body_ok |-> FALSE],
   [kind |-> "http", code |-> 404, latency |-> 2000, body_ok |-> TRUE],
   [kind |-> "http", code |-> 500, latency |-> 2000, body_ok |-> TRUE],
   [kind |-> "http", code |-> 503, latency |-> 2001, body_ok |-> TRUE],
   [kind |-> "timeout", code |-> 0, latency |-> 10000, body_ok |-> FALSE],
   [kind |-> "error", code |-> 0, latency |-> 0, body_ok |-> FALSE]}

Nominal == [kind |-> "http", code |-> 200, latency |-> 2000, body_ok |-> TRUE]

\* robots.txt: the request answers another status than 200, times out, raises
\* another exception, or answers 200 with Disallow: /a
RobotsFailures == {"non200", "timeout", "exception"}

RobotsOutcomes == RobotsFailures \cup {"disallow_a"}

NoParser == {Null}

RobotsRules(outcome) ==
  IF outcome = "disallow_a" THEN {<<"/", "a">>} ELSE {}

\* list(set(links)): every order of the set
Orders(S) ==
  {s \in [1..Cardinality(S) -> S] : \A i, j \in 1..Cardinality(S) : s[i] = s[j] => i = j}

\* ------------------------------------------------------------------------
\* The clients of the server and its clock
\* ------------------------------------------------------------------------
MaxCallers == 3

MaxRpm == 2

MaxScans == 2

MaxClock == 62

MaxWsEvents == 2

\* largest value of a counter of stats handed to generate_report
MaxCount == 2

DefaultRequestsPerMinute == 5

DefaultMaxConcurrentScans == 10

Window == 60

CleanupInterval == 60

\* the connections the server accepts, in the order it accepts them
Callers == 1..MaxCallers

\* what get_client_ip returns for them
Clients == {"ip1", "ip2"}

\* how far time.time() moves between two steps of the server
TickSteps == {29, 31}

\* ------------------------------------------------------------------------
\* State of one SiteCrawler and of its scan() generator
\* ------------------------------------------------------------------------
VARIABLES
  start_url, max_depth, max_pages, max_retries, respect_robots,
  visited, nodes, links, stats,
  robots_loaded, robots_parser, robots_requests, robots_reply,
  queue, semaphore, pc, cur, attempt, last_error, result,
  events, fetch_calls, tries, faults, report,
  n_pc, n_href, n_base, n_out,
  requests_per_minute, max_concurrent_scans,
  _request_times, _active_scans, _last_cleanup, _lock, now,
  caller_pc, caller_ip, caller_result, admissions,
  ws_pc, ws_ip, scan_started, ws_result, ws_raw, ws_url, resolved, safety,
  ws_sent, ws_releases, ws_crawlers, ws_fetches, ws_path,
  ws_error, ws_message, ws_connected

vars == <<start_url, max_depth, max_pages, max_retries, respect_robots,
          visited, nodes, links, stats,
          robots_loaded, robots_parser, robots_requests, robots_reply,
          queue, semaphore, pc, cur, attempt, last_error, result,
          events, fetch_calls, tries, faults, report,
          n_pc, n_href, n_base, n_out,
          requests_per_minute, max_concurrent_scans,
          _request_times, _active_scans, _last_cleanup, _lock, now,
          caller_pc, caller_ip, caller_result, admissions,
          ws_pc, ws_ip, scan_started, ws_result, ws_raw, ws_url, resolved,
          safety, ws_sent, ws_releases, ws_crawlers, ws_fetches, ws_path,
          ws_error, ws_message, ws_connected>>

normVars == <<n_pc, n_href, n_base, n_out>>

limiterVars == <<requests_per_minute, max_concurrent_scans, _request_times,
                 _active_scans, _last_cleanup, _lock, now>>

callerVars == <<caller_pc, caller_ip, caller_result, admissions>>

errorVars == <<ws_error, ws_message>>

handlerVars == <<ws_pc, ws_ip, scan_started, ws_result, ws_raw, ws_url,
                 resolved, safety, ws_sent, ws_releases, ws_crawlers,
                 ws_fetches, ws_path, errorVars, ws_connected>>

serverVars == <<limiterVars, callerVars, handlerVars>>

crawlVars == <<visited, nodes, links, stats,
               robots_loaded, robots_parser, robots_requests, robots_reply,
               queue, semaphore, pc, cur, attempt, last_error, result,
               events, fetch_calls, tries, faults, report>>

configVars == <<start_url, max_depth, max_pages, max_retries, respect_robots>>

base_domain == urlparse(start_url, <<>>).netloc

base_scheme ==
  IF urlparse(start_url, <<>>).scheme = <<>> THEN <<"https">>
  ELSE urlparse(start_url, <<>>).scheme

NoResult ==
  [url |-> Null, status_code |-> 0, latency |-> 0, status |-> "none",
   links |-> <<>>, error |-> "none"]

NoReport == [summary |-> <<>>, orphan_nodes |-> <<>>]

NoCur == [url |-> Null, depth |-> 0, parent |-> Null, node_id |-> 0]

\* SiteCrawler.__init__ and the first lines of scan()
CrawlerInit ==
  /\ visited = {}
  /\ nodes = <<>>
  /\ links = <<>>
  /\ stats = [total_pages |-> 0, dead_links |-> 0, slow_pages |-> 0,
              orphan_pages |-> 0]
  /\ robots_loaded = FALSE
  /\ robots_parser = NoParser
  /\ robots_requests = 0
  /\ robots_reply = "none"
  /\ queue = <<[url |-> start_url, depth |-> 0, parent |-> Null]>>
  /\ semaphore = DefaultMaxConcurrent
  /\ pc = "load_robots"
  /\ cur = NoCur
  /\ attempt = 0
  /\ last_error = "none"
  /\ result = NoResult
  /\ events = <<>>
  /\ fetch_calls = <<>>
  /\ tries = <<>>
  /\ faults = 0
  /\ report = NoReport

\* RateLimiter.__init__ with the module's clock at 0
LimiterInit ==
  /\ _request_times = <<>>
  /\ _active_scans = 0
  /\ _last_cleanup = 0
  /\ _lock = 0
  /\ now = 0

\* no connection has been accepted
CallersInit ==
  /\ caller_pc = [h \in Callers |-> "idle"]
  /\ caller_ip = [h \in Callers |-> "none"]
  /\ caller_result = [h \in Callers |-> "none"]
  /\ admissions = <<>>

NoAnswer == [error |-> FALSE, ips |-> {}]

\* websocket_scan has not been entered
HandlerInit ==
  /\ ws_pc = "idle"
  /\ ws_ip = "none"
  /\ scan_started = FALSE
  /\ ws_result = "none"
  /\ ws_raw = Null
  /\ ws_url = Null
  /\ resolved = NoAnswer
  /\ safety = "none"
  /\ ws_sent = <<>>
  /\ ws_releases = 0
  /\ ws_crawlers = 0
  /\ ws_fetches = 0
  /\ ws_path = "none"
  /\ ws_error = <<>>
  /\ ws_message = <<>>
  /\ ws_connected = TRUE

\* the server is not part of a specification of the crawler alone
LimiterOff ==
  /\ requests_per_minute = DefaultRequestsPerMinute
  /\ max_concurrent_scans = DefaultMaxConcurrentScans
  /\ LimiterInit
  /\ CallersInit
  /\ HandlerInit

Init ==
  /\ start_url \in StartUrls
  /\ max_depth \in 0..MaxDepthBound
  /\ max_pages \in 0..MaxPagesBound
  /\ max_retries \in 0..MaxRetriesBound
  /\ respect_robots \in BOOLEAN
  /\ CrawlerInit
  /\ n_pc = "off"
  /\ n_href = <<>>
  /\ n_base = <<>>
  /\ n_out = <<>>
  /\ LimiterOff

\* ------------------------------------------------------------------------
\* Robots gate
\* ------------------------------------------------------------------------
\* _load_robots_txt up to its GET, awaited once at the start of scan()
LoadRobots ==
  /\ pc = "load_robots"
  /\ IF robots_loaded
     THEN /\ pc' = "loop"
          /\ UNCHANGED <<robots_loaded, robots_requests, robots_reply>>
     ELSE /\ robots_loaded' = TRUE
          /\ robots_requests' = robots_requests + 1
          /\ \E outcome \in RobotsOutcomes : robots_reply' = outcome
          /\ pc' = "robots_answer"
  /\ UNCHANGED <<visited, nodes, links, stats, robots_parser, queue, semaphore,
                 cur, attempt, last_error, result, events, fetch_calls, tries,
                 faults, report>>
  /\ UNCHANGED configVars
  /\ UNCHANGED <<normVars, serverVars>>

ParserAfter_FailClosed(outcome) ==
  IF outcome \in RobotsFailures THEN {<<"/">>} ELSE RobotsRules(outcome)

\* lines 109-121: a parser is made only for a 200 answer; every exception is
\* swallowed
ParserAfter(outcome) ==
  IF outcome \in RobotsFailures THEN NoParser ELSE RobotsRules(outcome)

\* the GET of robots.txt answers or fails, and _load_robots_txt returns
RobotsAnswered ==
  /\ pc = "robots_answer"
  /\ robots_parser' = ParserAfter(robots_reply)
  /\ robots_reply' = "none"
  /\ pc' = "loop"
  /\ UNCHANGED <<visited, nodes, links, stats, robots_loaded, robots_requests,
                 queue, semaphore, cur, attempt, last_error, result, events,
                 fetch_calls, tries, faults, report>>
  /\ UNCHANGED configVars
  /\ UNCHANGED <<normVars, serverVars>>

\* RobotFileParser.can_fetch: no Disallow path is a prefix of the URL's path
ParserAllows(rules, url) ==
  \A d \in rules : ~StartsWith(OrRoot(urlparse(url, <<>>).path), d)

_can_fetch_Always(url) == TRUE

\* lines 127-130
_can_fetch(url) ==
  IF ~respect_robots \/ robots_parser = NoParser THEN TRUE
  ELSE ParserAllows(robots_parser, url)

\* ------------------------------------------------------------------------
\* SiteCrawler._fetch_page
\* ------------------------------------------------------------------------
Classify_Above500(status_code, latency) ==
  IF status_code > 500 THEN "necrosis"
  ELSE IF latency > LatencyThreshold THEN "blockage"
  ELSE "healthy"

Classify_LatencyFirst(status_code, latency) ==
  IF latency > LatencyThreshold THEN "blockage"
  ELSE IF status_code >= 400 THEN "necrosis"
  ELSE "healthy"

\* the classification of lines 197-202
Classify(status_code, latency) ==
  IF status_code >= 400 THEN "necrosis"
  ELSE IF latency > LatencyThreshold THEN "blockage"
  ELSE "healthy"

\* the links of lines 205-216, before list(set(...)) orders them
ExtractLinks(url, resp) ==
  IF resp.code = 200 /\ resp.body_ok
  THEN {_normalize_url(h, url, base_domain, base_scheme) : h \in Body(url)}
         \ {Null, url}
  ELSE {}

\* the result for one GET, given the order list(set(links)) comes out in;
\* raised says whether an exception leaves _fetch_page
_fetch_page(url, resp, order) ==
  IF resp.kind = "http"
  THEN [raised |-> FALSE,
        result |-> [url |-> url, status_code |-> resp.code,
                    latency |-> resp.latency,
                    status |-> Classify(resp.code, resp.latency),
                    links |-> order, error |-> "none"]]
  ELSE IF resp.kind = "timeout"
  THEN [raised |-> FALSE,
        result |-> [url |-> url, status_code |-> 408, latency |-> resp.latency,
                    status |-> "necrosis", links |-> <<>>, error |-> "none"]]
  ELSE [raised |-> FALSE,
        result |-> [url |-> url, status_code |-> 0, latency |-> 0,
                    status |-> "necrosis", links |-> <<>>,
                    error |-> "exception"]]

\* ------------------------------------------------------------------------
\* SiteCrawler._fetch_with_retry
\* ------------------------------------------------------------------------
RetryCodes == {500, 502, 503, 504}

ShouldRetry_Any4xx(status_code, att) ==
  status_code >= 400 /\ att < max_retries - 1

ShouldRetry_NoBudget(status_code, att) == status_code \in RetryCodes

\* line 152: retry this answer?
ShouldRetry(status_code, att) ==
  status_code \in RetryCodes /\ att < max_retries - 1

\* lines 169-176
ExhaustedResult(url) ==
  [url |-> url, status_code |-> 0, latency |-> 0, status |-> "necrosis",
   links |-> <<>>,
   error |-> IF last_error # "none" THEN last_error ELSE "retry_limit"]

\* the answer is a fault and not the repetition of the previous attempt's
NewFault(url, resp) ==
  /\ resp # Nominal
  /\ ~(url \in DOMAIN tries /\ tries[url][Len(tries[url])] = resp)

LogTry(url, resp) ==
  [u \in DOMAIN tries \cup {url} |->
     IF u = url
     THEN (IF url \in DOMAIN tries THEN tries[url] ELSE <<>>) \o <<resp>>
     ELSE tries[u]]

\* the answers the target may give now: a new fault only while the crawl has
\* seen fewer than MaxFaults
Answers(url) ==
  {resp \in Responses : NewFault(url, resp) => faults < MaxFaults}

\* one pass of the for loop of lines 147-166
FetchAttempt ==
  /\ pc = "fetch"
  /\ attempt < max_retries
  /\ \E resp \in Answers(cur.url) :
     /\ faults' = (IF NewFault(cur.url, resp) THEN faults + 1 ELSE faults)
     /\ \E order \in Orders(ExtractLinks(cur.url, resp)) :
       LET r == _fetch_page(cur.url, resp, order)
       IN  /\ tries' = LogTry(cur.url, resp)
           /\ IF ~r.raised
              THEN IF ShouldRetry(r.result.status_code, attempt)
                   THEN /\ pc' = "backoff"
                        /\ UNCHANGED <<result, semaphore, last_error, attempt>>
                   ELSE /\ result' = r.result
                        /\ semaphore' = semaphore + 1
                        /\ pc' = "record"
                        /\ UNCHANGED <<last_error, attempt>>
              ELSE /\ last_error' = "exception"
                   /\ IF attempt < max_retries - 1
                      THEN pc' = "backoff" /\ UNCHANGED attempt
                      ELSE pc' = "fetch" /\ attempt' = attempt + 1
                   /\ UNCHANGED <<result, semaphore>>
  /\ UNCHANGED <<visited, nodes, links, stats, robots_loaded, robots_parser,
                 robots_requests, robots_reply, queue, cur, events, fetch_calls, report>>
  /\ UNCHANGED configVars
  /\ UNCHANGED <<normVars, serverVars>>

\* asyncio.sleep(base_delay + jitter) of lines 156 and 166 returns
BackoffDone ==
  /\ pc = "backoff"
  /\ attempt' = attempt + 1
  /\ pc' = "fetch"
  /\ UNCHANGED <<visited, nodes, links, stats, robots_loaded, robots_parser,
                 robots_requests, robots_reply, queue, semaphore, cur, last_error, result,
                 events, fetch_calls, tries, faults, report>>
  /\ UNCHANGED configVars
  /\ UNCHANGED <<normVars, serverVars>>

\* the loop ran out without a return: lines 168-176
FetchExhausted ==
  /\ pc = "fetch"
  /\ attempt >= max_retries
  /\ result' = ExhaustedResult(cur.url)
  /\ semaphore' = semaphore + 1
  /\ pc' = "record"
  /\ UNCHANGED <<visited, nodes, links, stats, robots_loaded, robots_parser,
                 robots_requests, robots_reply, queue, cur, attempt, last_error, events,
                 fetch_calls, tries, faults, report>>
  /\ UNCHANGED configVars
  /\ UNCHANGED <<normVars, serverVars>>

\* ------------------------------------------------------------------------
\* SiteCrawler.scan: the while loop of lines 263-342
\* ------------------------------------------------------------------------
Emit_Twice(e) == events' = events \o <<e, e>>

\* a yield of scan(): the consumer receives the event
Emit(e) == events' = Append(events, e)

LimitHit_Above == stats.total_pages > max_pages

\* line 265
LimitHit == stats.total_pages >= max_pages

IsVisited_Never(url) == FALSE

\* line 276
IsVisited(url) == url \in visited

MayDescend_Inclusive(depth) == depth <= max_depth

\* line 336
MayDescend(depth) == depth < max_depth

NodeUrls == {nodes[i].url : i \in 1..Len(nodes)}

NodeOf(url) == nodes[CHOOSE i \in 1..Len(nodes) : nodes[i].url = url]

\* the while condition is false
Complete ==
  /\ pc = "loop"
  /\ queue = <<>>
  /\ pc' = "completed"
  /\ UNCHANGED <<visited, nodes, links, stats, robots_loaded, robots_parser,
                 robots_requests, robots_reply, queue, semaphore, cur, attempt, last_error,
                 result, events, fetch_calls, tries, faults, report>>
  /\ UNCHANGED configVars
  /\ UNCHANGED <<normVars, serverVars>>

LimitReached_NoBreak ==
  /\ pc = "loop"
  /\ queue # <<>>
  /\ LimitHit
  /\ Emit([type |-> "limit_reached"])
  /\ queue' = Tail(queue)
  /\ UNCHANGED <<visited, nodes, links, stats, robots_loaded, robots_parser,
                 robots_requests, robots_reply, semaphore, pc, cur, attempt,
                 last_error, result, fetch_calls, tries, faults, report>>
  /\ UNCHANGED configVars
  /\ UNCHANGED <<normVars, serverVars>>

\* lines 265-270
LimitReached ==
  /\ pc = "loop"
  /\ queue # <<>>
  /\ LimitHit
  /\ Emit([type |-> "limit_reached"])
  /\ pc' = "limit_reached"
  /\ UNCHANGED <<visited, nodes, links, stats, robots_loaded, robots_parser,
                 robots_requests, robots_reply, queue, semaphore, cur, attempt, last_error,
                 result, fetch_calls, tries, faults, report>>
  /\ UNCHANGED configVars
  /\ UNCHANGED <<normVars, serverVars>>

\* lines 273-277
SkipVisited ==
  /\ pc = "loop"
  /\ queue # <<>>
  /\ ~LimitHit
  /\ IsVisited(Head(queue).url)
  /\ queue' = Tail(queue)
  /\ UNCHANGED <<visited, nodes, links, stats, robots_loaded, robots_parser,
                 robots_requests, robots_reply, semaphore, pc, cur, attempt, last_error,
                 result, events, fetch_calls, tries, faults, report>>
  /\ UNCHANGED configVars
  /\ UNCHANGED <<normVars, serverVars>>

\* lines 273-281
SkipDisallowed ==
  /\ pc = "loop"
  /\ queue # <<>>
  /\ ~LimitHit
  /\ ~IsVisited(Head(queue).url)
  /\ ~_can_fetch(Head(queue).url)
  /\ queue' = Tail(queue)
  /\ UNCHANGED <<visited, nodes, links, stats, robots_loaded, robots_parser,
                 robots_requests, robots_reply, semaphore, pc, cur, attempt, last_error,
                 result, events, fetch_calls, tries, faults, report>>
  /\ UNCHANGED configVars
  /\ UNCHANGED <<normVars, serverVars>>

\* lines 273-292: dequeue, mark visited, yield node_discovered
Discover ==
  /\ pc = "loop"
  /\ queue # <<>>
  /\ ~LimitHit
  /\ LET q == Head(queue)
     IN  /\ ~IsVisited(q.url)
         /\ _can_fetch(q.url)
         /\ visited' = visited \cup {q.url}
         /\ cur' = [url |-> q.url, depth |-> q.depth, parent |-> q.parent,
                    node_id |-> Len(nodes)]
         /\ Emit([type |-> "node_discovered", id |-> Len(nodes),
                  url |-> q.url, depth |-> q.depth])
  /\ queue' = Tail(queue)
  /\ pc' = "discovered"
  /\ UNCHANGED <<nodes, links, stats, robots_loaded, robots_parser,
                 robots_requests, robots_reply, semaphore, attempt, last_error, result,
                 fetch_calls, tries, faults, report>>
  /\ UNCHANGED configVars
  /\ UNCHANGED <<normVars, serverVars>>

\* lines 295-305: the parent is recorded, append the edge and yield it
LinkDiscovered ==
  /\ pc = "discovered"
  /\ cur.parent # Null
  /\ cur.parent \in NodeUrls
  /\ LET link_data == [source |-> NodeOf(cur.parent).id, target |-> cur.node_id]
     IN  /\ links' = Append(links, link_data)
         /\ Emit([type |-> "link_discovered", source |-> link_data.source,
                  target |-> link_data.target])
  /\ pc' = "acquire"
  /\ UNCHANGED <<visited, nodes, stats, robots_loaded, robots_parser,
                 robots_requests, robots_reply, queue, semaphore, cur, attempt, last_error,
                 result, fetch_calls, tries, faults, report>>
  /\ UNCHANGED configVars
  /\ UNCHANGED <<normVars, serverVars>>

NoLink_Always ==
  /\ pc = "discovered"
  /\ pc' = "acquire"
  /\ UNCHANGED <<visited, nodes, links, stats, robots_loaded, robots_parser,
                 robots_requests, robots_reply, queue, semaphore, cur, attempt,
                 last_error, result, events, fetch_calls, tries, faults, report>>
  /\ UNCHANGED configVars
  /\ UNCHANGED <<normVars, serverVars>>

\* line 295 is false
NoLink ==
  /\ pc = "discovered"
  /\ ~(cur.parent # Null /\ cur.parent \in NodeUrls)
  /\ pc' = "acquire"
  /\ UNCHANGED <<visited, nodes, links, stats, robots_loaded, robots_parser,
                 robots_requests, robots_reply, queue, semaphore, cur, attempt, last_error,
                 result, events, fetch_calls, tries, faults, report>>
  /\ UNCHANGED configVars
  /\ UNCHANGED <<normVars, serverVars>>

AcquirePermit_NoPermit ==
  /\ pc = "acquire"
  /\ attempt' = 0
  /\ last_error' = "none"
  /\ fetch_calls' = [u \in DOMAIN fetch_calls \cup {cur.url} |->
                       IF u = cur.url
                       THEN (IF u \in DOMAIN fetch_calls THEN fetch_calls[u] ELSE 0) + 1
                       ELSE fetch_calls[u]]
  /\ pc' = "fetch"
  /\ UNCHANGED <<visited, nodes, links, stats, robots_loaded, robots_parser,
                 robots_requests, robots_reply, queue, semaphore, cur, result, events, tries, faults, report>>
  /\ UNCHANGED configVars
  /\ UNCHANGED <<normVars, serverVars>>

\* lines 308-309: take a permit and enter _fetch_with_retry
AcquirePermit ==
  /\ pc = "acquire"
  /\ semaphore > 0
  /\ semaphore' = semaphore - 1
  /\ attempt' = 0
  /\ last_error' = "none"
  /\ fetch_calls' = [u \in DOMAIN fetch_calls \cup {cur.url} |->
                       IF u = cur.url
                       THEN (IF u \in DOMAIN fetch_calls THEN fetch_calls[u] ELSE 0) + 1
                       ELSE fetch_calls[u]]
  /\ pc' = "fetch"
  /\ UNCHANGED <<visited, nodes, links, stats, robots_loaded, robots_parser,
                 robots_requests, robots_reply, queue, cur, result, events, tries, faults, report>>
  /\ UNCHANGED configVars
  /\ UNCHANGED <<normVars, serverVars>>

PutNode_Drop(rec) == nodes

\* self.nodes[current_url] = {...}: a dict keeps the place of an existing key
PutNode(rec) ==
  IF rec.url \in NodeUrls
  THEN [i \in 1..Len(nodes) |-> IF nodes[i].url = rec.url THEN rec ELSE nodes[i]]
  ELSE Append(nodes, rec)

\* lines 312-333: record the node, count it, yield diagnosis_update
Record ==
  /\ pc = "record"
  /\ nodes' = PutNode([url |-> cur.url, id |-> cur.node_id, depth |-> cur.depth,
                       status_code |-> result.status_code,
                       latency |-> result.latency, status |-> result.status,
                       links |-> result.links, error |-> result.error])
  /\ stats' = [stats EXCEPT
                 !.total_pages = @ + 1,
                 !.dead_links = IF result.status = "necrosis" THEN @ + 1 ELSE @,
                 !.slow_pages = IF result.status = "blockage" THEN @ + 1 ELSE @]
  /\ Emit([type |-> "diagnosis_update", id |-> cur.node_id, url |-> cur.url,
           status_code |-> result.status_code, latency |-> result.latency,
           status |-> result.status])
  /\ pc' = "enqueue"
  /\ UNCHANGED <<visited, links, robots_loaded, robots_parser, robots_requests, robots_reply,
                 queue, semaphore, cur, attempt, last_error, result,
                 fetch_calls, tries, faults, report>>
  /\ UNCHANGED configVars
  /\ UNCHANGED <<normVars, serverVars>>

Children_SameDepth(ls, depth, parent) ==
  LET keep == SelectSeq(ls, LAMBDA l : l \notin visited)
  IN  [i \in 1..Len(keep) |-> [url |-> keep[i], depth |-> depth,
                               parent |-> parent]]

\* the queue entries lines 337-339 append for a list of links
Children(ls, depth, parent) ==
  LET keep == SelectSeq(ls, LAMBDA l : l \notin visited)
  IN  [i \in 1..Len(keep) |-> [url |-> keep[i], depth |-> depth + 1,
                               parent |-> parent]]

Enqueue_Front ==
  /\ pc = "enqueue"
  /\ queue' = IF MayDescend(cur.depth)
              THEN Children(result.links, cur.depth, cur.url) \o queue
              ELSE queue
  /\ pc' = "delay"
  /\ UNCHANGED <<visited, nodes, links, stats, robots_loaded, robots_parser,
                 robots_requests, robots_reply, semaphore, cur, attempt, last_error, result,
                 events, fetch_calls, tries, faults, report>>
  /\ UNCHANGED configVars
  /\ UNCHANGED <<normVars, serverVars>>

\* lines 336-339
Enqueue ==
  /\ pc = "enqueue"
  /\ queue' = IF MayDescend(cur.depth)
              THEN queue \o Children(result.links, cur.depth, cur.url)
              ELSE queue
  /\ pc' = "delay"
  /\ UNCHANGED <<visited, nodes, links, stats, robots_loaded, robots_parser,
                 robots_requests, robots_reply, semaphore, cur, attempt, last_error, result,
                 events, fetch_calls, tries, faults, report>>
  /\ UNCHANGED configVars
  /\ UNCHANGED <<normVars, serverVars>>

\* line 342: asyncio.sleep(request_delay) returns
Delay ==
  /\ pc = "delay"
  /\ pc' = "loop"
  /\ UNCHANGED <<visited, nodes, links, stats, robots_loaded, robots_parser,
                 robots_requests, robots_reply, queue, semaphore, cur, attempt, last_error,
                 result, events, fetch_calls, tries, faults, report>>
  /\ UNCHANGED configVars
  /\ UNCHANGED <<normVars, serverVars>>

\* generate_report, lines 347-350: how many edges point at a node id
in_degree(id) == Cardinality({i \in 1..Len(links) : links[i].target = id})

\* lines 352-356: the nodes other than the start URL that no edge points at
OrphanNodes ==
  SelectSeq(nodes, LAMBDA n : n.url # start_url /\ in_degree(n.id) = 0)

orphans == [i \in 1..Len(OrphanNodes) |-> OrphanNodes[i].url]

\* one sentence of advice; its text carries the counter it is about
Sentence(about, count) == [about |-> about, count |-> count]

Advice(about, count) ==
  IF count > 0 THEN <<Sentence(about, count)>> ELSE <<>>

OrElse(recommendations, sentence) ==
  IF recommendations = <<>> THEN <<sentence>> ELSE recommendations

_generate_recommendations_Reordered(st) ==
  OrElse(Advice("orphan_pages", st.orphan_pages)
           \o Advice("slow_pages", st.slow_pages)
           \o Advice("dead_links", st.dead_links),
         Sentence("healthy", 0))

\* lines 383-405: the three tests in list order, then the fallback
_generate_recommendations(st) ==
  OrElse(Advice("dead_links", st.dead_links)
           \o Advice("slow_pages", st.slow_pages)
           \o Advice("orphan_pages", st.orphan_pages),
         Sentence("healthy", 0))

\* generate_report, called once when scan() has ended; "summary" is the
\* stats dictionary itself, read after the orphans were counted
GenerateReport ==
  /\ pc \in {"completed", "limit_reached"}
  /\ stats' = [stats EXCEPT !.orphan_pages = @ + Len(orphans)]
  /\ report' = [summary |-> stats', orphan_nodes |-> orphans,
                recommendations |-> _generate_recommendations(stats')]
  /\ pc' = "reported"
  /\ UNCHANGED <<visited, nodes, links, robots_loaded, robots_parser,
                 robots_requests, robots_reply, queue, semaphore, cur, attempt,
                 last_error, result, events, fetch_calls, tries, faults>>
  /\ UNCHANGED configVars
  /\ UNCHANGED <<normVars, serverVars>>

Next ==
  \/ LoadRobots
  \/ RobotsAnswered
  \/ Complete
  \/ LimitReached
  \/ SkipVisited
  \/ SkipDisallowed
  \/ Discover
  \/ LinkDiscovered
  \/ NoLink
  \/ AcquirePermit
  \/ FetchAttempt
  \/ BackoffDone
  \/ FetchExhausted
  \/ Record
  \/ Enqueue
  \/ Delay
  \/ GenerateReport

Spec == Init /\ [][Next]_vars

\* ------------------------------------------------------------------------
\* The crawl under fair scheduling: scan() is one coroutine whose awaits (the
\* GETs of aiohttp with their timeouts, asyncio.sleep) return and whose
\* consumer keeps iterating, so it is resumed as long as it has a next step
\* ------------------------------------------------------------------------
\* ENABLED <<Next>>_vars written as a state predicate: every position has a
\* step but the end of generate_report, and `async with self.semaphore`
\* waits for a permit
CanStep == pc # "reported" /\ (pc = "acquire" => semaphore > 0)

ScanResumes_Never == TRUE

\* WF_vars(Next), with ENABLED <<Next>>_vars replaced by CanStep
ScanResumes == ([]<>(~CanStep)) \/ ([]<><<Next>>_vars)

\* asyncio.sleep returns (lines 156, 166 and 342), and the coroutine goes on
Fairness == WF_vars(BackoffDone) /\ WF_vars(Delay) /\ ScanResumes

FairSpec == Init /\ [][Next]_vars /\ Fairness

\* ------------------------------------------------------------------------
\* generate_report as a function of the counters: a crawler that is not
\* scanning, with any stats (tests/test_crawler.py sets them by hand)
\* ------------------------------------------------------------------------
Counts ==
  [total_pages : 0..MaxCount, dead_links : 0..MaxCount,
   slow_pages : 0..MaxCount, orphan_pages : 0..MaxCount]

ReportInit ==
  /\ start_url = Origin
  /\ max_depth = 0
  /\ max_pages = 0
  /\ max_retries = 0
  /\ respect_robots = TRUE
  /\ visited = {}
  /\ nodes = <<>>
  /\ links = <<>>
  /\ stats \in Counts
  /\ robots_loaded = FALSE
  /\ robots_parser = NoParser
  /\ robots_requests = 0
  /\ robots_reply = "none"
  /\ queue = <<>>
  /\ semaphore = DefaultMaxConcurrent
  /\ pc = "completed"
  /\ cur = NoCur
  /\ attempt = 0
  /\ last_error = "none"
  /\ result = NoResult
  /\ events = <<>>
  /\ fetch_calls = <<>>
  /\ tries = <<>>
  /\ faults = 0
  /\ report = NoReport
  /\ n_pc = "off"
  /\ n_href = <<>>
  /\ n_base = <<>>
  /\ n_out = <<>>
  /\ LimiterOff

ReportNext == GenerateReport

SpecReport == ReportInit /\ [][ReportNext]_vars

\* ------------------------------------------------------------------------
\* _normalize_url on its own: one call for each href, page URL and start URL
\* ------------------------------------------------------------------------
TailAlphabet == {"/", "a", "..", "?", "#"}

Tails == UNION {[1..n -> TailAlphabet] : n \in 0..MaxTailLen}

Prefixes ==
  {<<>>,
   <<"https", ":", "/", "/", "h">>,
   <<"http", ":", "/", "/", "h">>,
   <<"https", ":", "/", "/", "o">>,
   <<"/", "/", "h">>,
   <<"mailto", ":">>,
   <<"https", ":">>}

Hrefs == {p \o t : p \in Prefixes, t \in Tails}

NormStartUrls == {Origin, <<"http", ":", "/", "/", "h">>}

NormBases ==
  {Origin, Origin \o <<"/", "a", "/">>, <<"http", ":", "/", "/", "h", "/", "a">>}

NormInit ==
  /\ start_url \in NormStartUrls
  /\ max_depth = 0
  /\ max_pages = 0
  /\ max_retries = 0
  /\ respect_robots = TRUE
  /\ CrawlerInit
  /\ n_pc = "input"
  /\ n_href \in Hrefs
  /\ n_base \in NormBases
  /\ n_out = <<>>
  /\ LimiterOff

Normalize ==
  /\ n_pc = "input"
  /\ n_out' = _normalize_url(n_href, n_base, base_domain, base_scheme)
  /\ n_pc' = "done"
  /\ UNCHANGED <<n_href, n_base>>
  /\ UNCHANGED crawlVars
  /\ UNCHANGED configVars
  /\ UNCHANGED serverVars

NormNext == Normalize

SpecNorm == NormInit /\ [][NormNext]_vars

\* ------------------------------------------------------------------------
\* RateLimiter: check_rate_limit and release_scan called by concurrent
\* websocket_scan handlers
\* ------------------------------------------------------------------------
crawlerVars == <<crawlVars, configVars, normVars>>

\* self._request_times[ip] of a defaultdict(list)
TimesOf(times, ip) == IF ip \in DOMAIN times THEN times[ip] ELSE <<>>

Fresh_Never(times, t) == <<>>

\* [t for t in times if t > cutoff] with cutoff = now - 60
Fresh(times, t) == SelectSeq(times, LAMBDA x : x > t - Window)

\* _cleanup_old_records: every list is pruned and the empty ones are deleted
_cleanup_old_records(t) ==
  [ip \in {i \in DOMAIN _request_times : Fresh(_request_times[i], t) # <<>>}
     |-> Fresh(_request_times[ip], t)]

\* lines 169-171
CleanupDue == now - _last_cleanup > CleanupInterval

Cleaned == IF CleanupDue THEN _cleanup_old_records(now) ELSE _request_times

AtCapacity_Above == _active_scans > max_concurrent_scans

\* line 174
AtCapacity == _active_scans >= max_concurrent_scans

\* lines 178-182: the list of the client after pruning
Kept(ip) == Fresh(TimesOf(Cleaned, ip), now)

RateHit_Above(ip) == Len(Kept(ip)) > requests_per_minute

\* line 185
RateHit(ip) == Len(Kept(ip)) >= requests_per_minute

PutTimes(ip, times) ==
  [i \in DOMAIN Cleaned \cup {ip} |-> IF i = ip THEN times ELSE Cleaned[i]]

\* the answer of check_rate_limit in the current state
Answer(ip) ==
  IF AtCapacity THEN "busy" ELSE IF RateHit(ip) THEN "too_many" ELSE "admitted"

\* time.time() moves on
Tick ==
  /\ \E d \in TickSteps :
       /\ now + d <= MaxClock
       /\ now' = now + d
  /\ UNCHANGED <<requests_per_minute, max_concurrent_scans, _request_times,
                 _active_scans, _last_cleanup, _lock>>
  /\ UNCHANGED callerVars
  /\ UNCHANGED <<crawlerVars, handlerVars>>

\* websocket.accept() for the next connection, which comes from some client
Connect(h) ==
  /\ caller_pc[h] = "idle"
  /\ h > 1 => caller_pc[h - 1] # "idle"
  /\ \E ip \in Clients : caller_ip' = [caller_ip EXCEPT ![h] = ip]
  /\ caller_pc' = [caller_pc EXCEPT ![h] = "waiting"]
  /\ UNCHANGED <<caller_result, admissions>>
  /\ UNCHANGED limiterVars
  /\ UNCHANGED <<crawlerVars, handlerVars>>

\* async with self._lock, entered by check_rate_limit
LockForCheck(h) ==
  /\ caller_pc[h] = "waiting"
  /\ _lock = 0
  /\ _lock' = h
  /\ caller_pc' = [caller_pc EXCEPT ![h] = "checking"]
  /\ UNCHANGED <<requests_per_minute, max_concurrent_scans, _request_times,
                 _active_scans, _last_cleanup, now>>
  /\ UNCHANGED <<caller_ip, caller_result, admissions>>
  /\ UNCHANGED <<crawlerVars, handlerVars>>

\* the body of check_rate_limit, lines 166-192, and the exit of the lock
CheckRateLimit(h) ==
  /\ caller_pc[h] = "checking"
  /\ _lock = h
  /\ _last_cleanup' = (IF CleanupDue THEN now ELSE _last_cleanup)
  /\ caller_result' = [caller_result EXCEPT ![h] = Answer(caller_ip[h])]
  /\ IF Answer(caller_ip[h]) = "busy"
     THEN /\ _request_times' = Cleaned
          /\ UNCHANGED <<_active_scans, admissions>>
          /\ caller_pc' = [caller_pc EXCEPT ![h] = "done"]
     ELSE IF Answer(caller_ip[h]) = "too_many"
     THEN /\ _request_times' = PutTimes(caller_ip[h], Kept(caller_ip[h]))
          /\ UNCHANGED <<_active_scans, admissions>>
          /\ caller_pc' = [caller_pc EXCEPT ![h] = "done"]
     ELSE /\ _request_times' =
               PutTimes(caller_ip[h], Append(Kept(caller_ip[h]), now))
          /\ _active_scans' = _active_scans + 1
          /\ admissions' = Append(admissions, [ip |-> caller_ip[h], t |-> now])
          /\ caller_pc' = [caller_pc EXCEPT ![h] = "scanning"]
  /\ _lock' = 0
  /\ UNCHANGED <<requests_per_minute, max_concurrent_scans, now, caller_ip>>
  /\ UNCHANGED <<crawlerVars, handlerVars>>

\* the handler of an admitted scan reaches its finally block and release_scan
\* enters the lock
LockForRelease(h) ==
  /\ caller_pc[h] = "scanning"
  /\ _lock = 0
  /\ _lock' = h
  /\ caller_pc' = [caller_pc EXCEPT ![h] = "releasing"]
  /\ UNCHANGED <<requests_per_minute, max_concurrent_scans, _request_times,
                 _active_scans, _last_cleanup, now>>
  /\ UNCHANGED <<caller_ip, caller_result, admissions>>
  /\ UNCHANGED <<crawlerVars, handlerVars>>

\* the body of release_scan, lines 197-198, and the exit of the lock
ReleaseScan(h) ==
  /\ caller_pc[h] = "releasing"
  /\ _lock = h
  /\ _active_scans' = (IF _active_scans > 0 THEN _active_scans - 1
                       ELSE _active_scans)
  /\ _lock' = 0
  /\ caller_pc' = [caller_pc EXCEPT ![h] = "done"]
  /\ UNCHANGED <<requests_per_minute, max_concurrent_scans, _request_times,
                 _last_cleanup, now>>
  /\ UNCHANGED <<caller_ip, caller_result, admissions>>
  /\ UNCHANGED <<crawlerVars, handlerVars>>

\* a limiter with some quota and capacity, and no connection yet
LimiterStart ==
  /\ requests_per_minute \in 1..MaxRpm
  /\ max_concurrent_scans \in 1..MaxScans
  /\ LimiterInit
  /\ CallersInit
  /\ HandlerInit
  /\ start_url = Origin
  /\ max_depth = 0
  /\ max_pages = 0
  /\ max_retries = 0
  /\ respect_robots = TRUE
  /\ CrawlerInit
  /\ n_pc = "off"
  /\ n_href = <<>>
  /\ n_base = <<>>
  /\ n_out = <<>>

LimiterNext ==
  \/ Tick
  \/ \E h \in Callers : Connect(h)
  \/ \E h \in Callers : LockForCheck(h)
  \/ \E h \in Callers : CheckRateLimit(h)
  \/ \E h \in Callers : LockForRelease(h)
  \/ \E h \in Callers : ReleaseScan(h)

SpecLimiter == LimiterStart /\ [][LimiterNext]_vars

\* ------------------------------------------------------------------------
\* security.py: validate_url_safety and ScanRequest.validate_url
\*
\* A netloc is a sequence of tokens too: "@", ":", "[" and "]" are its
\* delimiters, a host name, an address literal or a port number is one word.
\* Only well-formed bracketed hosts are in the inputs (urlsplit raises
\* ValueError for the others), and no URL is longer than 2048 characters.
\* ------------------------------------------------------------------------
DANGEROUS_HOSTS ==
  {<<"localhost">>, <<"127.0.0.1">>, <<"0.0.0.0">>, <<"::1">>,
   <<"[", "::1", "]">>, <<"metadata.google.internal">>, <<"metadata.goog">>,
   <<"169.254.169.254">>, <<"kubernetes.default.svc">>,
   <<"host.docker.internal">>}

\* the properties of ipaddress.ip_address(s) for the address literals of the
\* model; any other word makes ip_address raise ValueError
IpFlags ==
  [ip \in {"127.0.0.1", "10.0.0.1", "169.254.169.254", "169.254.1.1",
           "224.0.0.1", "240.0.0.1", "0.0.0.0", "8.8.8.8", "::1", "fe80::1",
           "2001:4860:4860::8888"} |->
     CASE ip = "127.0.0.1" -> {"is_private", "is_loopback"}
       [] ip = "10.0.0.1" -> {"is_private"}
       [] ip \in {"169.254.169.254", "169.254.1.1", "fe80::1"} ->
            {"is_private", "is_link_local"}
       [] ip = "224.0.0.1" -> {"is_multicast"}
       [] ip = "240.0.0.1" -> {"is_private", "is_reserved"}
       [] ip = "0.0.0.0" -> {"is_private", "is_unspecified"}
       [] ip = "::1" -> {"is_private", "is_loopback", "is_reserved"}
       [] OTHER -> {}]

is_private_ip(ip_str) ==
  /\ ip_str \in DOMAIN IpFlags
  /\ IpFlags[ip_str] \cap {"is_private", "is_loopback", "is_link_local",
                           "is_multicast", "is_reserved", "is_unspecified"}
       # {}

\* ipaddress.ip_address(hostname) does not raise
IsAddress(host) == Len(host) = 1 /\ host[1] \in DOMAIN IpFlags

\* str.lower() on the words of the model
Lower(s) ==
  [i \in 1..Len(s) |->
     IF s[i] = "LOCALHOST" THEN "localhost"
     ELSE IF s[i] = "EXAMPLE.COM" THEN "example.com" ELSE s[i]]

FindLast(s, T) ==
  LET I == {i \in 1..Len(s) : s[i] \in T}
  IN  IF I = {} THEN 0 ELSE CHOOSE i \in I : \A j \in I : i >= j

\* _hostinfo of urllib: netloc.rpartition("@")[2]
HostInfo(netloc) == SubSeq(netloc, FindLast(netloc, {"@"}) + 1, Len(netloc))

HostPart(hi) ==
  IF FindFirst(hi, {"["}) > 0 THEN Before(After(hi, "["), "]")
  ELSE Before(hi, ":")

PortPart(hi) ==
  IF FindFirst(hi, {"["}) > 0 THEN After(After(After(hi, "["), "]"), ":")
  ELSE After(hi, ":")

\* parsed.hostname: lower case, None is the empty sequence
hostname(parsed) == Lower(HostPart(HostInfo(parsed.netloc)))

\* int(port) for the port words of the model
PortNumber ==
  [w \in {"0", "22", "443", "6379", "8080", "99999"} |->
     CASE w = "0" -> 0 [] w = "22" -> 22 [] w = "443" -> 443
       [] w = "6379" -> 6379 [] w = "8080" -> 8080 [] OTHER -> 99999]

\* parsed.port raises ValueError: not a number, or out of range
PortRaises(parsed) ==
  /\ PortPart(HostInfo(parsed.netloc)) # <<>>
  /\ \/ Len(PortPart(HostInfo(parsed.netloc))) # 1
     \/ PortPart(HostInfo(parsed.netloc))[1] \notin DOMAIN PortNumber
     \/ PortNumber[PortPart(HostInfo(parsed.netloc))[1]] > 65535

\* parsed.port where it does not raise: None is -1
port(parsed) ==
  IF PortPart(HostInfo(parsed.netloc)) = <<>> THEN -1
  ELSE PortNumber[PortPart(HostInfo(parsed.netloc))[1]]

dangerous_ports == {22, 23, 25, 110, 143, 445, 3306, 5432, 6379, 27017}

PortRefused_Never(parsed) == FALSE

\* lines 105-108: if port: ... if port in dangerous_ports
PortRefused(parsed) == port(parsed) > 0 /\ port(parsed) \in dangerous_ports

\* lines 104-110
CheckPort(parsed) ==
  IF PortRaises(parsed) THEN "raise"
  ELSE IF PortRefused(parsed) THEN "port" ELSE "safe"

\* lines 87-101: the address literal, or the answer of socket.getaddrinfo
CheckAddress(parsed, answer) ==
  IF IsAddress(hostname(parsed))
  THEN IF is_private_ip(hostname(parsed)[1]) THEN "private_ip"
       ELSE CheckPort(parsed)
  ELSE IF answer.error THEN "unresolved"
  ELSE IF \E ip_str \in answer.ips : is_private_ip(ip_str)
       THEN "private_resolved"
  ELSE CheckPort(parsed)

\* lines 76-84
CheckHost(parsed, answer) ==
  IF hostname(parsed) = <<>> THEN "no_host"
  ELSE IF Lower(hostname(parsed)) \in DANGEROUS_HOSTS THEN "dangerous_host"
  ELSE CheckAddress(parsed, answer)

\* lines 72-73
CheckParsed(parsed, answer) ==
  IF parsed.scheme \notin {<<"http">>, <<"https">>} THEN "scheme"
  ELSE CheckHost(parsed, answer)

\* validate_url_safety(url) when the resolver gives answer: "safe" is the
\* return of (True, ""), "raise" an exception, anything else the reason of a
\* (False, reason)
validate_url_safety(url, answer) == CheckParsed(urlparse(url, <<>>), answer)

\* str.strip() where " " is the only whitespace
Strip(s) ==
  LET I == {i \in 1..Len(s) : s[i] # " "}
  IN  IF I = {} THEN <<>>
      ELSE SubSeq(s, CHOOSE i \in I : \A j \in I : i <= j,
                     CHOOSE i \in I : \A j \in I : i >= j)

\* lines 235-236: https:// is put before a value with no http(s):// prefix
WithScheme(v) ==
  IF \/ StartsWith(v, <<"http", ":", "/", "/">>)
     \/ StartsWith(v, <<"https", ":", "/", "/">>)
  THEN v ELSE <<"https", ":", "/", "/">> \o v

\* ScanRequest.validate_url: the validated value, Null where it raises
\* ValueError
validate_url(v) ==
  IF Strip(v) = <<>> THEN Null
  ELSE IF hostname(urlparse(WithScheme(Strip(v)), <<>>)) = <<>> THEN Null
  ELSE WithScheme(Strip(v))

\* what socket.getaddrinfo can answer: gaierror, or some addresses
Resolutions ==
  {[error |-> TRUE, ips |-> {}]}
  \cup {[error |-> FALSE, ips |-> A] :
          A \in SUBSET {"8.8.8.8", "10.0.0.1", "::1"} \ {{}}}

\* ------------------------------------------------------------------------
\* security.py: sanitize_error_message.  An error message is a sequence of
\* characters ("nei" and "bu" stand for the two Chinese characters of the
\* replacement text).
\* ------------------------------------------------------------------------
MaxErrorLength == 200

\* the pairs of sensitive_patterns, in the order of the list
sensitive_patterns ==
  <<[pattern |-> <<"/", "h", "o", "m", "e", "/">>, replacement |-> <<>>],
    [pattern |-> <<"/", "v", "a", "r", "/">>, replacement |-> <<>>],
    [pattern |-> <<"/", "e", "t", "c", "/">>, replacement |-> <<>>],
    [pattern |-> <<"/", "u", "s", "r", "/">>, replacement |-> <<>>],
    [pattern |-> <<"1", "9", "2", ".", "1", "6", "8", ".">>,
     replacement |-> <<"[", "nei", "bu", "I", "P", "]">>],
    [pattern |-> <<"1", "0", ".">>,
     replacement |-> <<"[", "nei", "bu", "I", "P", "]">>],
    [pattern |-> <<"1", "7", "2", ".", "1", "6", ".">>,
     replacement |-> <<"[", "nei", "bu", "I", "P", "]">>],
    [pattern |-> <<"1", "2", "7", ".", "0", ".", "0", ".", "1">>,
     replacement |-> <<"[", "l", "o", "c", "a", "l", "h", "o", "s", "t", "]">>]>>

\* str.find(old): the first place where old occurs in s, 0 if there is none
FindSub(s, old) ==
  LET I == {i \in 1..(Len(s) - Len(old) + 1) :
              SubSeq(s, i, i + Len(old) - 1) = old}
  IN  IF I = {} THEN 0 ELSE CHOOSE i \in I : \A j \in I : i <= j

\* str.replace(old, new): the occurrences from the left, not overlapping
RECURSIVE Replace(_, _, _)
Replace(s, old, new) ==
  IF FindSub(s, old) = 0 THEN s
  ELSE SubSeq(s, 1, FindSub(s, old) - 1) \o new
       \o Replace(SubSeq(s, FindSub(s, old) + Len(old), Len(s)), old, new)

\* lines 281-283: one pattern after the other
RECURSIVE ReplaceAll(_, _)
ReplaceAll(s, pairs) ==
  IF pairs = <<>> THEN s
  ELSE ReplaceAll(Replace(s, Head(pairs).pattern, Head(pairs).replacement),
                  Tail(pairs))

\* lines 286-287
Truncate(s) ==
  IF Len(s) > MaxErrorLength
  THEN SubSeq(s, 1, MaxErrorLength) \o <<".", ".", ".">>
  ELSE s

sanitize_error_message(error_str) ==
  Truncate(ReplaceAll(error_str, sensitive_patterns))

\* str(e) of the exceptions the handler may catch: texts with a file path,
\* with an address, with neither, and long ones
ErrorTexts ==
  {<<"b", "o", "o", "m">>,
   <<"/", "h", "o", "m", "e", "/", "u", "/", "a", ".", "p", "y">>,
   <<"/", "e", "t", "c", "/", "p", "a", "s", "s", "w", "d">>,
   <<"t", "o", " ", "1", "9", "2", ".", "1", "6", "8", ".", "1", ".", "9">>,
   <<"t", "o", " ", "1", "0", ".", "0", ".", "0", ".", "1">>,
   <<"t", "o", " ", "1", "7", "2", ".", "1", "6", ".", "0", ".", "1">>,
   <<"t", "o", " ", "1", "7", "2", ".", "1", "7", ".", "0", ".", "2">>,
   <<"t", "o", " ", "1", "2", "7", ".", "0", ".", "0", ".", "1">>,
   <<"/", "h", "o", "/", "v", "a", "r", "/", "m", "e", "/", "u">>}

ErrorMessages ==
  ErrorTexts
  \cup {[i \in 1..(MaxErrorLength + 1) |-> "x"],
        [i \in 1..MaxErrorLength |-> "x"] \o <<"/", "u", "s", "r", "/", "l", "i", "b">>}

\* ------------------------------------------------------------------------
\* main.py: websocket_scan, one connection from accept() to the end of the
\* finally block.  The crawl is seen from the handler: each event it yields
\* stands for a request made to the target.
\* ------------------------------------------------------------------------
\* message.get("url", "") of the messages a client sends
RawUrls ==
  {<<>>, <<" ">>, <<" ", "example.com", " ">>,
   <<"https", ":", "/", "/", "example.com">>,
   <<"http", ":", "/", "/", "localhost">>,
   <<"http", ":", "/", "/", "10.0.0.1", "/", "a">>,
   <<"example.com", ":", "22">>, <<"example.com", ":", "x">>,
   <<"https", ":", "/", "/">>, <<"mailto", ":", "/", "/", "example.com">>}

\* websocket.send_json returns while the client is there, raises
\* WebSocketDisconnect once it is gone, or raises another exception
SendOutcomes ==
  IF ws_connected THEN {"ok", "error"} ELSE {"disconnect", "error"}

\* await websocket.send_json(...) inside the try block: what is sent, where
\* the handler goes on when the call returns, and the except clause entered
\* when it raises
send_json(kind, o, next, path) ==
  /\ ws_sent' = (IF o = "ok" THEN Append(ws_sent, kind) ELSE ws_sent)
  /\ ws_pc' = (IF o = "ok" THEN next
               ELSE IF o = "disconnect" THEN "finally" ELSE "failed")
  /\ ws_path' = (IF o = "ok" THEN path
                 ELSE IF o = "disconnect" THEN "disconnect" ELSE "exception")

\* the client closes the connection, or the network drops it
ClientDisconnect ==
  /\ ws_connected
  /\ ws_pc \notin {"idle", "closed"}
  /\ ws_connected' = FALSE
  /\ UNCHANGED <<ws_pc, ws_ip, scan_started, ws_result, ws_raw, ws_url,
                 resolved, safety, ws_sent, ws_releases, ws_crawlers,
                 ws_fetches, ws_path>>
  /\ UNCHANGED <<limiterVars, callerVars, crawlerVars, errorVars>>

\* lines 114-117
WsAccept ==
  /\ ws_pc = "idle"
  /\ \E ip \in Clients : ws_ip' = ip
  /\ ws_pc' = "rate_check"
  /\ UNCHANGED <<scan_started, ws_result, ws_raw, ws_url, resolved, safety,
                 ws_sent, ws_releases, ws_crawlers, ws_fetches, ws_path>>
  /\ UNCHANGED <<limiterVars, callerVars, crawlerVars, errorVars,
                 ws_connected>>

\* lines 123-129: check_rate_limit under its lock, then the branch on allowed
WsCheckRateLimit ==
  /\ ws_pc = "rate_check"
  /\ ws_result' = Answer(ws_ip)
  /\ _last_cleanup' = (IF CleanupDue THEN now ELSE _last_cleanup)
  /\ IF Answer(ws_ip) = "admitted"
     THEN /\ _request_times' = PutTimes(ws_ip, Append(Kept(ws_ip), now))
          /\ _active_scans' = _active_scans + 1
          /\ scan_started' = TRUE
          /\ ws_pc' = "receive"
          /\ UNCHANGED ws_path
     ELSE /\ _request_times' = (IF Answer(ws_ip) = "busy" THEN Cleaned
                                ELSE PutTimes(ws_ip, Kept(ws_ip)))
          /\ UNCHANGED <<_active_scans, scan_started>>
          /\ ws_pc' = "send_error"
          /\ ws_path' = "denied"
  /\ UNCHANGED <<ws_ip, ws_raw, ws_url, resolved, safety, ws_sent,
                 ws_releases, ws_crawlers, ws_fetches>>
  /\ UNCHANGED <<requests_per_minute, max_concurrent_scans, _lock, now>>
  /\ UNCHANGED <<callerVars, crawlerVars, errorVars,
                 ws_connected>>

\* lines 135-146: receive_text within 30 s and json.loads; a message that is
\* not an object makes message.get raise at line 150
WsReceive ==
  /\ ws_pc = "receive"
  /\ \/ /\ ws_pc' = "send_error"
        /\ ws_path' \in {"timeout", "bad_json"}
        /\ UNCHANGED ws_raw
     \/ /\ ~ws_connected
        /\ ws_pc' = "finally"
        /\ ws_path' = "disconnect"
        /\ UNCHANGED ws_raw
     \/ /\ ws_pc' = "failed"
        /\ ws_path' = "exception"
        /\ UNCHANGED ws_raw
     \/ /\ \E u \in RawUrls : ws_raw' = u
        /\ ws_pc' = "validate"
        /\ UNCHANGED ws_path
  /\ UNCHANGED <<ws_ip, scan_started, ws_result, ws_url, resolved, safety,
                 ws_sent, ws_releases, ws_crawlers, ws_fetches>>
  /\ UNCHANGED <<limiterVars, callerVars, crawlerVars, errorVars,
                 ws_connected>>

\* lines 149-154: ScanRequest(url=...)
WsValidate ==
  /\ ws_pc = "validate"
  /\ IF validate_url(ws_raw) = Null
     THEN /\ ws_pc' = "send_error"
          /\ ws_path' = "invalid_url"
          /\ UNCHANGED ws_url
     ELSE /\ ws_url' = validate_url(ws_raw)
          /\ ws_pc' = "ssrf"
          /\ UNCHANGED ws_path
  /\ UNCHANGED <<ws_ip, scan_started, ws_result, ws_raw, resolved, safety,
                 ws_sent, ws_releases, ws_crawlers, ws_fetches>>
  /\ UNCHANGED <<limiterVars, callerVars, crawlerVars, errorVars,
                 ws_connected>>

\* line 160: if not is_safe
Refused(verdict) == verdict # "safe"

\* lines 159-175: validate_url_safety with what the resolver answers, and
\* SiteCrawler(start_url=...) when it accepted
WsCheckSafety ==
  /\ ws_pc = "ssrf"
  /\ \E answer \in Resolutions :
       /\ resolved' = answer
       /\ safety' = validate_url_safety(ws_url, answer)
  /\ IF safety' = "raise"
     THEN /\ ws_pc' = "failed"
          /\ ws_path' = "exception"
          /\ UNCHANGED ws_crawlers
     ELSE IF Refused(safety')
     THEN /\ ws_pc' = "send_error"
          /\ ws_path' = "unsafe"
          /\ UNCHANGED ws_crawlers
     ELSE /\ ws_pc' = "scanning"
          /\ ws_crawlers' = ws_crawlers + 1
          /\ UNCHANGED ws_path
  /\ UNCHANGED <<ws_ip, scan_started, ws_result, ws_raw, ws_url, ws_sent,
                 ws_releases, ws_fetches>>
  /\ UNCHANGED <<limiterVars, callerVars, crawlerVars, errorVars,
                 ws_connected>>

\* the send_json before each early return (lines 126, 142, 145, 153, 162)
WsSendError ==
  /\ ws_pc = "send_error"
  /\ \E o \in SendOutcomes : send_json("error", o, "finally", ws_path)
  /\ UNCHANGED <<ws_ip, scan_started, ws_result, ws_raw, ws_url, resolved,
                 safety, ws_releases, ws_crawlers, ws_fetches>>
  /\ UNCHANGED <<limiterVars, callerVars, crawlerVars, errorVars,
                 ws_connected>>

\* line 178: the generator runs on between two yields and makes a request to
\* the target (robots.txt, a page, a retry); nothing there looks at the
\* connection
WsScanFetch ==
  /\ ws_pc = "scanning"
  /\ ws_fetches < MaxWsEvents
  /\ ws_fetches' = ws_fetches + 1
  /\ UNCHANGED <<ws_pc, ws_ip, scan_started, ws_result, ws_raw, ws_url,
                 resolved, safety, ws_sent, ws_releases, ws_crawlers, ws_path>>
  /\ UNCHANGED <<limiterVars, callerVars, crawlerVars, errorVars,
                 ws_connected>>

\* lines 178-179: the generator yields an event, which is sent
WsScanEvent ==
  /\ ws_pc = "scanning"
  /\ Len(ws_sent) < MaxWsEvents
  /\ \E o \in SendOutcomes : send_json("event", o, "scanning", ws_path)
  /\ UNCHANGED <<ws_ip, scan_started, ws_result, ws_raw, ws_url, resolved,
                 safety, ws_releases, ws_crawlers, ws_fetches>>
  /\ UNCHANGED <<limiterVars, callerVars, crawlerVars, errorVars,
                 ws_connected>>

\* line 178: crawler.scan() raises
WsScanRaises ==
  /\ ws_pc = "scanning"
  /\ ws_pc' = "failed"
  /\ ws_path' = "exception"
  /\ UNCHANGED <<ws_ip, scan_started, ws_result, ws_raw, ws_url, resolved,
                 safety, ws_sent, ws_releases, ws_crawlers, ws_fetches>>
  /\ UNCHANGED <<limiterVars, callerVars, crawlerVars, errorVars,
                 ws_connected>>

\* lines 182-195: the generator is exhausted, the report is sent
WsScanComplete ==
  /\ ws_pc = "scanning"
  /\ \E o \in SendOutcomes :
       send_json("scan_complete", o, "finally", "completed")
  /\ UNCHANGED <<ws_ip, scan_started, ws_result, ws_raw, ws_url, resolved,
                 safety, ws_releases, ws_crawlers, ws_fetches>>
  /\ UNCHANGED <<limiterVars, callerVars, crawlerVars, errorVars,
                 ws_connected>>

\* lines 200-209: except Exception, where a failing send_json is passed over
WsHandleError ==
  /\ ws_pc = "failed"
  /\ \E e \in ErrorMessages : ws_error' = e
  /\ \E o \in SendOutcomes :
       /\ ws_sent' = (IF o = "ok" THEN Append(ws_sent, "error") ELSE ws_sent)
       /\ ws_message' = (IF o = "ok" THEN sanitize_error_message(ws_error')
                         ELSE ws_message)
  /\ ws_pc' = "finally"
  /\ UNCHANGED <<ws_ip, scan_started, ws_result, ws_raw, ws_url, resolved,
                 safety, ws_releases, ws_crawlers, ws_fetches, ws_path>>
  /\ UNCHANGED <<limiterVars, callerVars, crawlerVars, ws_connected>>

MustRelease_Always == TRUE

\* line 213: if scan_started
MustRelease == scan_started

\* lines 211-214: the finally block, with release_scan under its lock
WsFinally ==
  /\ ws_pc = "finally"
  /\ IF MustRelease
     THEN /\ _active_scans' = (IF _active_scans > 0 THEN _active_scans - 1
                               ELSE _active_scans)
          /\ ws_releases' = ws_releases + 1
     ELSE UNCHANGED <<_active_scans, ws_releases>>
  /\ ws_pc' = "closed"
  /\ UNCHANGED <<ws_ip, scan_started, ws_result, ws_raw, ws_url, resolved,
                 safety, ws_sent, ws_crawlers, ws_fetches, ws_path>>
  /\ UNCHANGED <<requests_per_minute, max_concurrent_scans, _request_times,
                 _last_cleanup, _lock, now>>
  /\ UNCHANGED <<callerVars, crawlerVars, errorVars,
                 ws_connected>>

\* the scans of other connections that are running when this one arrives
StartLoads == {0, max_concurrent_scans - 1, max_concurrent_scans}

\* the requests of the last minute: none, or the quota of the first client
StartTimes ==
  {<<>>, [ip \in {"ip1"} |-> [k \in 1..requests_per_minute |-> now]]}

\* the module's limiter with other connections around, and a new connection
WsInit ==
  /\ requests_per_minute = DefaultRequestsPerMinute
  /\ max_concurrent_scans = DefaultMaxConcurrentScans
  /\ now = 0
  /\ _lock = 0
  /\ _last_cleanup = 0
  /\ _active_scans \in StartLoads
  /\ _request_times \in StartTimes
  /\ CallersInit
  /\ HandlerInit
  /\ start_url = Origin
  /\ max_depth = 0
  /\ max_pages = 0
  /\ max_retries = 0
  /\ respect_robots = TRUE
  /\ CrawlerInit
  /\ n_pc = "off"
  /\ n_href = <<>>
  /\ n_base = <<>>
  /\ n_out = <<>>

WsNext ==
  \/ ClientDisconnect
  \/ WsAccept
  \/ WsCheckRateLimit
  \/ WsReceive
  \/ WsValidate
  \/ WsCheckSafety
  \/ WsSendError
  \/ WsScanFetch
  \/ WsScanEvent
  \/ WsScanRaises
  \/ WsScanComplete
  \/ WsHandleError
  \/ WsFinally

SpecWS == WsInit /\ [][WsNext]_vars

\* ------------------------------------------------------------------------
\* validate_url_safety on any URL: the handler at line 159, where start_url
\* may be any URL and the resolver may give any answer
\* ------------------------------------------------------------------------
SafetySchemes == {<<>>, <<"http", ":">>, <<"https", ":">>, <<"mailto", ":">>}

SafetyHosts ==
  {<<>>, <<"example.com">>, <<"EXAMPLE.COM">>, <<"localhost">>,
   <<"LOCALHOST">>, <<"metadata.google.internal">>, <<"2130706433">>,
   <<"127.0.0.1">>, <<"10.0.0.1">>, <<"169.254.1.1">>, <<"224.0.0.1">>,
   <<"240.0.0.1">>, <<"0.0.0.0">>, <<"8.8.8.8">>, <<"[", "::1", "]">>,
   <<"[", "fe80::1", "]">>, <<"[", "2001:4860:4860::8888", "]">>}

SafetyPorts ==
  {<<>>, <<":">>, <<":", "0">>, <<":", "22">>, <<":", "443">>,
   <<":", "6379">>, <<":", "99999">>, <<":", "x">>}

SafetyUrls ==
  {s \o <<"/", "/">> \o u \o h \o p \o t :
     s \in SafetySchemes, u \in {<<>>, <<"u", "@">>}, h \in SafetyHosts,
     p \in SafetyPorts, t \in {<<>>, <<"/", "a">>}}

SafetyInit ==
  /\ requests_per_minute = DefaultRequestsPerMinute
  /\ max_concurrent_scans = DefaultMaxConcurrentScans
  /\ now = 0
  /\ _lock = 0
  /\ _last_cleanup = 0
  /\ _active_scans = 1
  /\ _request_times = [ip \in {"ip1"} |-> <<now>>]
  /\ CallersInit
  /\ ws_pc = "ssrf"
  /\ ws_ip = "ip1"
  /\ scan_started = TRUE
  /\ ws_result = "admitted"
  /\ ws_url \in SafetyUrls
  /\ ws_raw = ws_url
  /\ resolved = NoAnswer
  /\ safety = "none"
  /\ ws_sent = <<>>
  /\ ws_releases = 0
  /\ ws_crawlers = 0
  /\ ws_fetches = 0
  /\ ws_path = "none"
  /\ ws_error = <<>>
  /\ ws_message = <<>>
  /\ ws_connected = TRUE
  /\ start_url = Origin
  /\ max_depth = 0
  /\ max_pages = 0
  /\ max_retries = 0
  /\ respect_robots = TRUE
  /\ CrawlerInit
  /\ n_pc = "off"
  /\ n_href = <<>>
  /\ n_base = <<>>
  /\ n_out = <<>>

\* the handler goes on from line 159 to the end of its finally block
SafetyNext ==
  \/ ClientDisconnect
  \/ WsCheckSafety
  \/ WsSendError
  \/ WsScanFetch
  \/ WsScanEvent
  \/ WsScanRaises
  \/ WsScanComplete
  \/ WsHandleError
  \/ WsFinally

SpecSafety == SafetyInit /\ [][SafetyNext]_vars

\* ------------------------------------------------------------------------
\* Properties of scan() and _fetch_with_retry (specification Spec)
\* ------------------------------------------------------------------------
Discovered == {i \in 1..Len(events) : events[i].type = "node_discovered"}

TriesOf(url) == IF url \in DOMAIN tries THEN tries[url] ELSE <<>>

IsTransportFailure(resp) == resp.kind \in {"timeout", "error"}

IsRetryable5xx(resp) == resp.kind = "http" /\ resp.code \in RetryCodes

CountStatus(st) == Cardinality({i \in 1..Len(nodes) : nodes[i].status = st})

\* C1: no URL is in two node_discovered events and none is handed to
\* _fetch_with_retry twice
C1_Once ==
  /\ \A i, j \in Discovered : events[i].url = events[j].url => i = j
  /\ \A u \in DOMAIN fetch_calls : fetch_calls[u] <= 1

\* C1: dequeuing a URL that is in the visited set emits nothing, counts
\* nothing, fetches nothing and only drops the queue head
C1_SkipStep ==
  (pc = "loop" /\ queue # <<>> /\ stats.total_pages < max_pages
     /\ Head(queue).url \in visited)
  => /\ events' = events
     /\ stats' = stats
     /\ fetch_calls' = fetch_calls
     /\ nodes' = nodes
     /\ visited' = visited
     /\ queue' = Tail(queue)
     /\ pc' = "loop"

\* C1: in one run of scan() each URL is discovered at most once and fetched
\* at most once, and a dequeued URL that is already visited is skipped
\* without an event or a counter change
C1_VisitedOnce == [](C1_Once) /\ [][C1_SkipStep]_vars

\* a URL that was fetched is at the head of the queue again, below the cap
C1_Witness ==
  /\ pc = "loop"
  /\ queue # <<>>
  /\ stats.total_pages < max_pages
  /\ Head(queue).url \in visited
  /\ Head(queue).url \in DOMAIN fetch_calls
  /\ Head(queue).url \in NodeUrls

\* C2: the number of recorded pages never exceeds max_pages, for every
\* max_pages >= 0
C2_PageCap == stats.total_pages <= max_pages /\ Len(nodes) <= max_pages

\* the cap stopped a crawl that still had queue entries
C2_Witness ==
  /\ pc = "limit_reached"
  /\ max_pages >= 1
  /\ stats.total_pages = max_pages
  /\ queue # <<>>

\* C3: every recorded node and every node_discovered event has depth <=
\* max_depth; a queue entry other than the start entry is a link of a recorded
\* page of depth < max_depth and sits one level below it
C3_DepthCap ==
  /\ \A i \in 1..Len(nodes) : nodes[i].depth <= max_depth
  /\ \A i \in Discovered : events[i].depth <= max_depth
  /\ \A i \in 1..Len(queue) :
       \/ queue[i].parent = Null /\ queue[i].depth = 0
       \/ /\ queue[i].parent \in NodeUrls
          /\ NodeOf(queue[i].parent).depth < max_depth
          /\ queue[i].depth = NodeOf(queue[i].parent).depth + 1

\* a page at the deepest level has links, and they were not enqueued
C3_Witness ==
  /\ pc = "delay"
  /\ max_depth >= 1
  /\ cur.depth = max_depth
  /\ result.links # <<>>
  /\ \A i \in 1..Len(queue) : queue[i].parent # cur.url

\* C4: a page whose fetch ended in a transport failure (timeout or other
\* exception of the GET) was tried max_retries times before it was recorded
C4_TransportRetried ==
  \A i \in 1..Len(nodes) :
    (TriesOf(nodes[i].url) # <<>>
       /\ IsTransportFailure(TriesOf(nodes[i].url)[Len(TriesOf(nodes[i].url))]))
    => Len(TriesOf(nodes[i].url)) = max_retries

\* C5: a fetch makes at most max_retries attempts, and every attempt but the
\* last one answered 500, 502, 503 or 504
C5_RetryBudget ==
  /\ \A u \in DOMAIN tries :
       /\ Len(tries[u]) <= max_retries
       /\ \A k \in 1..(Len(tries[u]) - 1) : IsRetryable5xx(tries[u][k])
  /\ pc = "backoff" =>
       /\ IsRetryable5xx(TriesOf(cur.url)[Len(TriesOf(cur.url))])
       /\ Len(TriesOf(cur.url)) < max_retries

\* a 5xx answer was retried and the last attempt of the budget was made
C5_Witness ==
  /\ pc = "record"
  /\ max_retries = 2
  /\ Len(TriesOf(cur.url)) = 2
  /\ IsRetryable5xx(TriesOf(cur.url)[1])

\* C6: a page that answered 5xx and then 200 within the budget is recorded
\* Healthy or Blockage by its latency, and dead_links counts exactly the
\* Necrosis nodes; a page that answered 5xx on all max_retries attempts is
\* recorded Necrosis
C6_RetryOutcome ==
  /\ \A i \in 1..Len(nodes) :
       /\ (Len(TriesOf(nodes[i].url)) >= 2
             /\ TriesOf(nodes[i].url)[Len(TriesOf(nodes[i].url))].kind = "http"
             /\ TriesOf(nodes[i].url)[Len(TriesOf(nodes[i].url))].code = 200)
          => /\ nodes[i].status \in {"healthy", "blockage"}
             /\ nodes[i].status = "blockage" <=> nodes[i].latency > LatencyThreshold
       /\ (Len(TriesOf(nodes[i].url)) = max_retries
             /\ \A k \in 1..max_retries : IsRetryable5xx(TriesOf(nodes[i].url)[k]))
          => nodes[i].status = "necrosis"
  /\ stats.dead_links = CountStatus("necrosis")

\* a page answered 500 and then 200, and is recorded as not dead
C6_Witness ==
  \E i \in 1..Len(nodes) :
    /\ Len(TriesOf(nodes[i].url)) = 2
    /\ TriesOf(nodes[i].url)[1].code = 500
    /\ TriesOf(nodes[i].url)[2].code = 200
    /\ nodes[i].status # "necrosis"
    /\ stats.dead_links = 0

Exhausted(t) ==
  /\ Len(t) = max_retries
  /\ \A k \in 1..Len(t) : IsRetryable5xx(t[k]) \/ IsTransportFailure(t[k])

LastCode(t) ==
  IF t = <<>> THEN 0
  ELSE IF t[Len(t)].kind = "http" THEN t[Len(t)].code
  ELSE IF t[Len(t)].kind = "timeout" THEN 408
  ELSE 0

LastError(t) ==
  IF t = <<>> THEN "retry_limit"
  ELSE IF t[Len(t)].kind = "error" THEN "exception"
  ELSE "none"

C7_LastResult ==
  \A i \in 1..Len(nodes) :
    Exhausted(TriesOf(nodes[i].url))
    => /\ nodes[i].status = "necrosis"
       /\ nodes[i].links = <<>>
       /\ nodes[i].status_code = LastCode(TriesOf(nodes[i].url))
       /\ nodes[i].error = LastError(TriesOf(nodes[i].url))

C7_RecordStep ==
  pc = "record"
  => /\ pc' = "enqueue"
     /\ nodes' = Append(nodes, nodes'[Len(nodes')])
     /\ nodes'[Len(nodes')].url = cur.url
     /\ nodes'[Len(nodes')].status_code = result.status_code

Resolved == urlparse(urljoin(n_base, n_href), <<>>)

WebSchemes == {<<"http">>, <<"https">>}

HasToken(s, t) == \E i \in 1..Len(s) : s[i] = t

EndsWithTwo(s, t) == Len(s) >= 2 /\ s[Len(s)] = t /\ s[Len(s) - 1] = t

\* C9 as stated: an accepted URL has no query, no fragment and no trailing
\* slash, the bare root excepted
C9_NoTrailingSlash ==
  (n_pc = "done" /\ n_out # Null)
  => /\ ~HasToken(n_out, "?")
     /\ ~HasToken(n_out, "#")
     /\ EndsWith(n_out, "/")
        => n_out = Resolved.scheme \o <<":", "/", "/">> \o Resolved.netloc \o <<"/">>

\* C9, amended: an accepted URL has no query and no fragment, and exactly
\* one trailing slash of the resolved path is removed: it ends with "/" only
\* for the bare root or for a path that ended in more than one slash
C9_OneSlashStripped ==
  (n_pc = "done" /\ n_out # Null)
  => /\ ~HasToken(n_out, "?")
     /\ ~HasToken(n_out, "#")
     /\ EndsWith(n_out, "/")
        => (Resolved.path = <<"/">> \/ EndsWithTwo(Resolved.path, "/"))
     /\ (EndsWith(Resolved.path, "/") /\ Resolved.path # <<"/">>)
        => n_out \o <<"/">>
             = Resolved.scheme \o <<":", "/", "/">> \o Resolved.netloc
                 \o Resolved.path

\* a path ending in two slashes was accepted and still ends with one
C9_Witness ==
  /\ n_pc = "done"
  /\ n_out # Null
  /\ Len(Resolved.path) > 2
  /\ EndsWithTwo(Resolved.path, "/")
  /\ EndsWith(n_out, "/")

\* C10: an href that resolves to the root path normalizes to scheme://host
\* without a trailing slash
C10_RootNoSlash ==
  (n_pc = "done" /\ n_out # Null /\ Resolved.path = <<"/">>)
  => n_out = Resolved.scheme \o <<":", "/", "/">> \o Resolved.netloc

\* ------------------------------------------------------------------------
\* Properties of the robots gate and of the event stream (specification Spec)
\* ------------------------------------------------------------------------
\* the parser that was loaded forbids the URL and the configuration obeys it
Disallowed(url) ==
  /\ respect_robots
  /\ robots_parser # NoParser
  /\ ~ParserAllows(robots_parser, url)

IsType(i, t) == events[i].type = t

\* the URLs of the node_discovered and diagnosis_update events
EventUrls ==
  {events[i].url :
     i \in {j \in 1..Len(events) :
              IsType(j, "node_discovered") \/ IsType(j, "diagnosis_update")}}

\* the URLs the crawl has marked, fetched, recorded or reported
Touched ==
  visited \cup NodeUrls \cup DOMAIN fetch_calls \cup DOMAIN tries \cup EventUrls

\* C11: a URL the robots gate disallows is never marked visited, fetched,
\* recorded as a node or named by a node_discovered, link_discovered or
\* diagnosis_update event, and the counters count recorded nodes only; when
\* such a URL is at the head of the queue nothing else has been touched for it
C11_DisallowedSkipped ==
  /\ (respect_robots /\ robots_parser # NoParser)
     => /\ \A u \in Touched : ~Disallowed(u)
        /\ \A i \in 1..Len(events) :
             IsType(i, "link_discovered")
             => \E j \in 1..(i - 1) :
                  /\ IsType(j, "node_discovered")
                  /\ events[j].id = events[i].target
                  /\ ~Disallowed(events[j].url)
  /\ stats.total_pages = Len(nodes)
  /\ stats.dead_links = CountStatus("necrosis")
  /\ stats.slow_pages = CountStatus("blockage")

\* a disallowed URL was enqueued by two pages: the entry of the first page
\* was dropped and the entry of the second page is at the head of the queue
C11_Witness ==
  /\ pc = "loop"
  /\ queue # <<>>
  /\ stats.total_pages = 2
  /\ stats.total_pages < max_pages
  /\ Disallowed(Head(queue).url)
  /\ Head(queue).parent = Origin \o <<"/">>
  /\ NodeUrls = {Origin, Origin \o <<"/">>}
  /\ Head(queue).url \notin Touched

\* URLs to put to the gate: those of the crawl and the paths robots.txt names
ProbeUrls ==
  Touched \cup {queue[i].url : i \in 1..Len(queue)}
    \cup {Origin \o <<"/", "a">>, Origin \o <<"/", "b">>}

C12_Gate ==
  /\ robots_requests <= 1
  /\ (DOMAIN fetch_calls # {} \/ DOMAIN tries # {} \/ events # <<>>)
     => /\ robots_requests = 1
        /\ robots_loaded
        /\ pc \notin {"load_robots", "robots_answer"}
  /\ (robots_loaded /\ pc # "robots_answer" /\ robots_parser = NoParser)
     => \A u \in ProbeUrls : _can_fetch(u)
  /\ ~respect_robots => \A u \in ProbeUrls : _can_fetch(u)

C12_AnswerStep ==
  (pc = "robots_answer" /\ robots_reply \in RobotsFailures)
  => /\ robots_parser' = NoParser
     /\ robots_loaded'
     /\ robots_requests' = 1
     /\ pc' = "loop"

\* C12: robots.txt is requested at most once and before any page is fetched;
\* a request that answers another status than 200, times out or raises leaves
\* the gate loaded without a parser, where _can_fetch is true for every URL;
\* with respect_robots off _can_fetch is true for every URL whatever was loaded
C12_FailOpen == [](C12_Gate) /\ [][C12_AnswerStep]_vars

\* the robots.txt request failed in a crawl that respects robots.txt, and the
\* page /a was fetched and recorded
C12_Witness ==
  /\ respect_robots
  /\ robots_loaded
  /\ robots_requests = 1
  /\ robots_parser = NoParser
  /\ Origin \o <<"/", "a">> \in NodeUrls
  /\ Origin \o <<"/", "a">> \in DOMAIN fetch_calls

\* the pcs between the node_discovered yield and the diagnosis_update yield
FetchPending == {"discovered", "acquire", "fetch", "backoff", "record"}

\* event i + 1 closes the iteration that discovered node id
ClosedBy(i, id) ==
  IsType(i + 1, "diagnosis_update") /\ events[i + 1].id = id

\* a node_discovered event opens the first group with id 0, or follows the
\* diagnosis_update of the group before it and has the next id
C13_Discovered(i) ==
  /\ IF i = 1 THEN events[i].id = 0
     ELSE ClosedBy(i - 2, events[i].id - 1)
  /\ IF i = Len(events) THEN pc \in FetchPending
     ELSE \/ ClosedBy(i, events[i].id)
          \/ IsType(i + 1, "link_discovered")
               /\ events[i + 1].target = events[i].id

C13_Link(i) ==
  /\ i > 1
  /\ IsType(i - 1, "node_discovered")
  /\ events[i - 1].id = events[i].target
  /\ IF i = Len(events) THEN pc \in FetchPending \ {"discovered"}
     ELSE ClosedBy(i, events[i].target)

C13_Diagnosis(i) ==
  /\ i > 1
  /\ \/ IsType(i - 1, "node_discovered") /\ events[i - 1].id = events[i].id
     \/ IsType(i - 1, "link_discovered") /\ events[i - 1].target = events[i].id
  /\ i < Len(events)
     => IsType(i + 1, "node_discovered") \/ IsType(i + 1, "limit_reached")

\* C13: the event stream is a sequence of groups node_discovered{id},
\* at most one link_discovered{target = id}, diagnosis_update{id}, with the
\* ids 0, 1, 2, ... in this order, so one group per id; only the last group
\* can be open, and only while its fetch is pending; the link event is out
\* before the fetch of its node starts
C13_EventOrder ==
  /\ \A i \in 1..Len(events) :
       /\ IsType(i, "node_discovered") => C13_Discovered(i)
       /\ IsType(i, "link_discovered") => C13_Link(i)
       /\ IsType(i, "diagnosis_update") => C13_Diagnosis(i)
  /\ pc = "discovered"
     => cur.url \notin DOMAIN fetch_calls /\ cur.url \notin DOMAIN tries
  /\ (events # <<>> /\ pc \notin FetchPending)
     => ~IsType(Len(events), "node_discovered")
        /\ ~IsType(Len(events), "link_discovered")

\* a crawl ended after three nodes, the second and third with a link event
C13_Witness ==
  /\ pc = "completed"
  /\ Len(events) = 8
  /\ IsType(1, "node_discovered") /\ IsType(2, "diagnosis_update")
  /\ IsType(3, "node_discovered") /\ IsType(4, "link_discovered")
  /\ IsType(5, "diagnosis_update")
  /\ IsType(6, "node_discovered") /\ IsType(7, "link_discovered")
  /\ IsType(8, "diagnosis_update")

LimitEvents == {i \in 1..Len(events) : IsType(i, "limit_reached")}

C14_LimitState ==
  /\ Cardinality(LimitEvents) <= 1
  /\ \A i \in LimitEvents :
       /\ i = Len(events)
       /\ pc \in {"limit_reached", "reported"}
       /\ stats.total_pages >= max_pages
       /\ queue # <<>>
  /\ pc = "limit_reached" => LimitEvents # {}

\* the only step from the state that follows the limit_reached yield is the
\* report, which leaves the crawl's collections as they are
C14_NothingAfter ==
  pc = "limit_reached"
  => /\ pc' = "reported"
     /\ UNCHANGED <<queue, visited, nodes, links, events, fetch_calls, tries>>
     /\ stats'.total_pages = stats.total_pages

\* C14: limit_reached is emitted at most once, with total_pages >= max_pages
\* and a non-empty queue, and is the last event: after it scan() takes no
\* step, so nothing is dequeued, fetched, recorded or emitted and the queue
\* entries that remain are never looked at
C14_LimitLast == [](C14_LimitState) /\ [][C14_NothingAfter]_vars

\* the cap stopped a crawl after its last diagnosis with two entries queued
C14_Witness ==
  /\ pc = "limit_reached"
  /\ Len(events) > 1
  /\ IsType(Len(events), "limit_reached")
  /\ IsType(Len(events) - 1, "diagnosis_update")
  /\ Len(queue) >= 2

NodeIds == {nodes[i].id : i \in 1..Len(nodes)}

\* C15: in every state of a crawl, the source id and the target id of every
\* edge in links are ids of nodes stored in nodes
C15_EdgesHaveNodes ==
  \A i \in 1..Len(links) :
    links[i].source \in NodeIds /\ links[i].target \in NodeIds

Terminated == pc \in {"completed", "limit_reached", "reported"}

StartNodes == {i \in 1..Len(nodes) : nodes[i].url = start_url}

\* C16: when the crawl has ended, exactly one edge points at every node but
\* the start node and none at the start node, so links has one edge less than
\* nodes has entries; the report lists no orphans and counts none
C16_OneInboundEdge ==
  Terminated
  => /\ \A i \in 1..Len(nodes) :
          in_degree(nodes[i].id) = (IF i \in StartNodes THEN 0 ELSE 1)
     /\ \A i, j \in 1..Len(links) : links[i] = links[j] => i = j
     /\ nodes # <<>> => (StartNodes = {1} /\ Len(links) = Len(nodes) - 1)
     /\ orphans = <<>>
     /\ pc = "reported"
        => report.orphan_nodes = <<>> /\ report.summary.orphan_pages = 0

\* the report of a crawl of three pages in which a visited page was linked
\* again
C16_Witness ==
  /\ pc = "reported"
  /\ Len(nodes) = 3
  /\ Len(links) = 2
  /\ \E i, j \in 1..Len(nodes) :
       i # j /\ \E k \in 1..Len(nodes[j].links) :
                  nodes[j].links[k] = nodes[i].url /\ nodes[i].id < nodes[j].id

\* ------------------------------------------------------------------------
\* Properties of the rate limiter (specification SpecLimiter)
\* ------------------------------------------------------------------------
\* the scans that were admitted and have not been released
Holding == {h \in Callers : caller_pc[h] \in {"scanning", "releasing"}}

\* the admissions of a client that are less than 60 seconds old
Recent(ip) ==
  SelectSeq(admissions, LAMBDA a : a.ip = ip /\ now - a.t < Window)

RecentTimes(ip) == [k \in 1..Len(Recent(ip)) |-> Recent(ip)[k].t]

\* the timestamps a list holds that are less than 60 seconds old
InWindow(times) == SelectSeq(times, LAMBDA x : now - x < Window)

\* caller h leaves the body of check_rate_limit in this step
Answered(h) == caller_pc[h] = "checking" /\ caller_pc'[h] # "checking"

C18_Count ==
  /\ 0 <= _active_scans
  /\ _active_scans <= max_concurrent_scans
  /\ _active_scans = Cardinality(Holding)
  /\ _lock # 0 => caller_pc[_lock] \in {"checking", "releasing"}

C18_Step ==
  \A h \in Callers :
    Answered(h)
    => /\ _active_scans = max_concurrent_scans
          => /\ caller_result'[h] = "busy"
             /\ caller_pc'[h] = "done"
             /\ _active_scans' = _active_scans
       /\ (_active_scans < max_concurrent_scans
             /\ Len(Recent(caller_ip[h])) < requests_per_minute)
          => /\ caller_result'[h] = "admitted"
             /\ caller_pc'[h] = "scanning"
             /\ _active_scans' = _active_scans + 1

\* C18: under every interleaving of the handlers' check_rate_limit and
\* release_scan calls, 0 <= _active_scans <= max_concurrent_scans and
\* _active_scans is the number of admitted scans not yet released; an attempt
\* at full capacity is denied, and an attempt below capacity (as after a
\* release) by a client within its quota is admitted
C18_Capacity == [](C18_Count) /\ [][C18_Step]_vars

\* with room for one scan: a scan was admitted and released, an attempt was
\* denied for capacity, and another scan is admitted now
C18_Witness ==
  /\ max_concurrent_scans = 1
  /\ \E h1, h2, h3 \in Callers :
       /\ caller_result[h1] = "admitted" /\ caller_pc[h1] = "done"
       /\ caller_result[h2] = "busy"
       /\ caller_result[h3] = "admitted" /\ caller_pc[h3] = "scanning"
  /\ _active_scans = 1

C19_Quota ==
  /\ \A k \in 1..Len(admissions) :
       Cardinality({j \in 1..Len(admissions) :
                      /\ admissions[j].ip = admissions[k].ip
                      /\ admissions[j].t <= admissions[k].t
                      /\ admissions[k].t - admissions[j].t < Window})
         <= requests_per_minute
  /\ \A ip \in Clients :
       InWindow(TimesOf(_request_times, ip)) = RecentTimes(ip)

C19_Step ==
  \A h \in Callers :
    Answered(h)
    => /\ (_active_scans < max_concurrent_scans
             /\ Len(Recent(caller_ip[h])) < requests_per_minute)
          => caller_result'[h] = "admitted"
       /\ (_active_scans < max_concurrent_scans
             /\ Len(Recent(caller_ip[h])) >= requests_per_minute)
          => caller_result'[h] = "too_many"
       /\ caller_result'[h] # "admitted"
          => /\ _active_scans' = _active_scans
             /\ admissions' = admissions
             /\ caller_pc'[h] = "done"
       /\ \A ip \in Clients :
            InWindow(TimesOf(_request_times', ip))
              = IF ip = caller_ip[h] /\ caller_result'[h] = "admitted"
                THEN Append(InWindow(TimesOf(_request_times, ip)), now)
                ELSE InWindow(TimesOf(_request_times, ip))

\* C19: a client is admitted at most requests_per_minute times in any 60
\* seconds: below capacity an attempt is admitted when fewer than
\* requests_per_minute of the client's own admissions are less than 60
\* seconds old and denied otherwise; a denied attempt records nothing and
\* leaves _active_scans alone; an admission changes no other client's record
C19_SlidingWindow == [](C19_Quota) /\ [][C19_Step]_vars

\* with a quota of one: a client was admitted, denied inside the window and
\* admitted again 60 seconds after its first admission
C19_Witness ==
  /\ requests_per_minute = 1
  /\ Len(admissions) = 2
  /\ admissions[1].ip = admissions[2].ip
  /\ admissions[2].t - admissions[1].t = Window
  /\ \E h \in Callers :
       caller_ip[h] = admissions[1].ip /\ caller_result[h] = "too_many"

\* ------------------------------------------------------------------------
\* Properties of websocket_scan (specification SpecWS)
\* ------------------------------------------------------------------------
WsDenied == ws_result \in {"busy", "too_many"}

WsAdmitted == ws_result = "admitted"

\* the ways out of the handler once a permit is held
AdmittedExits ==
  {"completed", "timeout", "bad_json", "invalid_url", "unsafe", "disconnect",
   "exception"}

\* a denied connection: nothing of the engine runs and nothing is released
C17_Denied ==
  (~WsAdmitted) =>
    /\ ~scan_started
    /\ ws_crawlers = 0
    /\ ws_fetches = 0
    /\ ws_releases = 0
    /\ _active_scans \in StartLoads

\* an admitted connection holds its permit until the handler has ended, and
\* has released it once when it has ended, whichever way it ended
C17_Admitted ==
  WsAdmitted =>
    /\ scan_started
    /\ ws_pc = "closed" => ws_path \in AdmittedExits
    /\ ws_releases = (IF ws_pc = "closed" THEN 1 ELSE 0)
    /\ _active_scans \in
         (IF ws_pc = "closed" THEN {0, max_concurrent_scans - 1}
          ELSE {1, max_concurrent_scans})

\* C17: in websocket_scan the permit obtained by a successful
\* check_rate_limit is released exactly once on every exit path (scan
\* completed, receive timeout, bad JSON, invalid URL, SSRF rejection, client
\* disconnect, unexpected exception); when check_rate_limit denies admission
\* no crawler is created, no fetch is made and release_scan is not called.
C17_ReleasedOnce == C17_Denied /\ C17_Admitted

\* a crawl that was running when an exception ended it: one release
C17_Witness ==
  /\ ws_pc = "closed"
  /\ WsAdmitted
  /\ ws_path = "exception"
  /\ ws_crawlers = 1
  /\ ws_fetches = 1
  /\ ws_sent = <<"event", "error">>
  /\ ws_releases = 1
  /\ _active_scans = max_concurrent_scans - 1

\* ------------------------------------------------------------------------
\* Properties of validate_url_safety (specification SpecSafety)
\* ------------------------------------------------------------------------
\* loopback, private, link-local, reserved, multicast or unspecified
Unroutable(ip_str) ==
  /\ ip_str \in DOMAIN IpFlags
  /\ \E f \in {"is_loopback", "is_private", "is_link_local", "is_reserved",
               "is_multicast", "is_unspecified"} : f \in IpFlags[ip_str]

\* what an accepted URL and the answer of the resolver must be like
Acceptable(parsed, answer) ==
  /\ parsed.scheme \in {<<"http">>, <<"https">>}
  /\ hostname(parsed) # <<>>
  /\ hostname(parsed) \notin DANGEROUS_HOSTS
  /\ IF IsAddress(hostname(parsed)) THEN ~Unroutable(hostname(parsed)[1])
     ELSE ~answer.error /\ \A ip_str \in answer.ips : ~Unroutable(ip_str)
  /\ ~PortRaises(parsed)
  /\ port(parsed) \notin dangerous_ports

CrawlStarted == ws_crawlers > 0 \/ ws_fetches > 0

\* C20: a crawl starts (a SiteCrawler is created, a request is sent to the
\* target) only if validate_url_safety accepted the start URL, and it accepts
\* a URL only if the scheme is http or https, the host is non-empty and not
\* in the denylist, neither the literal address nor any resolved address is
\* loopback, private, link-local, reserved, multicast or unspecified, and the
\* port is not one of 22, 23, 25, 110, 143, 445, 3306, 5432, 6379, 27017.
C20_SafeStart ==
  /\ CrawlStarted => safety = "safe"
  /\ safety = "safe" => Acceptable(urlparse(ws_url, <<>>), resolved)

\* a crawl of an accepted URL with user information, an upper-case host and
\* a harmless port has made a request
C20_Witness ==
  /\ ws_url = <<"https", ":", "/", "/", "u", "@", "EXAMPLE.COM", ":", "443",
                "/", "a">>
  /\ resolved = [error |-> FALSE, ips |-> {"8.8.8.8"}]
  /\ safety = "safe"
  /\ ws_crawlers = 1
  /\ ws_fetches = 1

\* ------------------------------------------------------------------------
\* Properties of the except clause of websocket_scan (specification SpecWS)
\* ------------------------------------------------------------------------
Contains(s, sub) == FindSub(s, sub) > 0

\* the path prefixes the sanitizer is written for
FilePathPrefixes ==
  {<<"/", "h", "o", "m", "e", "/">>,
   <<"/", "v", "a", "r", "/">>,
   <<"/", "e", "t", "c", "/">>,
   <<"/", "u", "s", "r", "/">>}

\* how a literal of 10/8, 172.16/12 (two of its sixteen second octets),
\* 192.168/16 or the loopback address begins
PrivateAddressPrefixes ==
  {<<"1", "0", ".">>, <<"1", "9", "2", ".", "1", "6", "8", ".">>,
   <<"1", "7", "2", ".", "1", "6", ".">>,
   <<"1", "7", "2", ".", "1", "7", ".">>,
   <<"1", "2", "7", ".", "0", ".", "0", ".", "1">>}

\* the handler has caught an exception that was not a disconnect
CaughtException == ws_path = "exception" /\ ws_pc \in {"finally", "closed"}

\* at most one error event, it is the last event, no scan_complete, and the
\* permit is released
C21_Boundary ==
  CaughtException =>
    /\ Len(SelectSeq(ws_sent, LAMBDA k : k = "error")) <= 1
    /\ \A i \in 1..Len(ws_sent) : ws_sent[i] = "error" => i = Len(ws_sent)
    /\ \A i \in 1..Len(ws_sent) : ws_sent[i] # "scan_complete"
    /\ (ws_pc = "closed" /\ WsAdmitted) => ws_releases = 1

\* the message sent is bounded and holds no file path and no private address
C21_Redacted ==
  CaughtException =>
    /\ Len(ws_message) <= MaxErrorLength + 3
    /\ \A p \in FilePathPrefixes : ~Contains(ws_message, p)
    /\ \A a \in PrivateAddressPrefixes : ~Contains(ws_message, a)

\* C21: an exception escaping the crawl inside websocket_scan (other than a
\* client disconnect) is caught at the handler boundary, produces at most one
\* error event, which is the final event sent (no scan_complete follows) and
\* carries a message of bounded length from which file-path prefixes and
\* private-address literals are redacted, and the handler still releases its
\* permit.
C21_SanitizedFinalError == C21_Boundary /\ C21_Redacted

\* ------------------------------------------------------------------------
\* Properties of a disconnect during the crawl (specification SpecWS)
\* ------------------------------------------------------------------------
\* the client is gone while the handler iterates over crawler.scan()
GoneDuringCrawl == ~ws_connected /\ ws_pc = "scanning"

ReportSent ==
  /\ ws_sent' # ws_sent
  /\ ws_sent'[Len(ws_sent')] = "scan_complete"

\* from then on no request is made to the target and no report is sent
AfterDisconnect == GoneDuringCrawl => (ws_fetches' = ws_fetches /\ ~ReportSent)

\* C22: once the client transport disconnects during a crawl, the crawl
\* stops: no new page fetch is started, an outstanding fetch is abandoned
\* rather than run on through its retries, no scan_complete report is sent,
\* and no exception propagates out of websocket_scan.
C22_StopsOnDisconnect == [][AfterDisconnect]_vars

\* ------------------------------------------------------------------------
\* Recommendations of the report (specification Spec)
\* ------------------------------------------------------------------------
Mentions(about) ==
  \E i \in 1..Len(report.recommendations) :
    report.recommendations[i].about = about

Position(about) ==
  CHOOSE i \in 1..Len(report.recommendations) :
    report.recommendations[i].about = about

ComesBefore(a, b) == (Mentions(a) /\ Mentions(b)) => Position(a) < Position(b)

NoProblem ==
  /\ report.summary.dead_links = 0
  /\ report.summary.slow_pages = 0
  /\ report.summary.orphan_pages = 0

\* C23: the recommendations of a report hold the dead-link sentence iff
\* dead_links > 0, the slow-page sentence iff slow_pages > 0 and the orphan
\* sentence iff orphan_pages > 0, in that order, and are exactly the one
\* "healthy" sentence iff the three counters are zero; a report of a crawl
\* that fetched no page has zero in every summary field and that sentence.
C23_Sentences ==
  pc = "reported" =>
    /\ Mentions("dead_links") <=> report.summary.dead_links > 0
    /\ Mentions("slow_pages") <=> report.summary.slow_pages > 0
    /\ Mentions("orphan_pages") <=> report.summary.orphan_pages > 0
    /\ ComesBefore("dead_links", "slow_pages")
    /\ ComesBefore("dead_links", "orphan_pages")
    /\ ComesBefore("slow_pages", "orphan_pages")
    /\ Len(report.recommendations) <= 3
    /\ (report.recommendations = <<Sentence("healthy", 0)>>) <=> NoProblem
    /\ Mentions("healthy") => Len(report.recommendations) = 1
    /\ \A i \in 1..Len(report.recommendations) :
         report.recommendations[i].about # "healthy"
           => report.recommendations[i].count
                = report.summary[report.recommendations[i].about]

NothingFetched ==
  /\ nodes = <<>>
  /\ stats = [total_pages |-> 0, dead_links |-> 0, slow_pages |-> 0,
              orphan_pages |-> 0]

C23_EmptyReport ==
  (NothingFetched /\ pc # "reported" /\ pc' = "reported")
    => /\ report'.summary = stats
       /\ report'.recommendations = <<Sentence("healthy", 0)>>

C23_Recommendations == [](C23_Sentences) /\ [][C23_EmptyReport]_vars

\* a report with the three sentences
C23_Witness ==
  /\ pc = "reported"
  /\ Len(report.recommendations) = 3

\* ------------------------------------------------------------------------
\* Termination (specification FairSpec)
\* ------------------------------------------------------------------------
\* C24: every crawl terminates: for any finite site, max_pages >= 0 and
\* max_retries >= 0, scan() eventually ends because the queue is empty
\* (completed) or because the page cap was hit (limit_reached), given that
\* every fetch attempt and every sleep eventually returns
C24_Terminates == <>(pc \in {"completed", "limit_reached"})

\* a crawl of two pages that retried a request, backed off and completed
C24_Witness ==
  /\ pc = "completed"
  /\ Len(nodes) >= 2
  /\ \E u \in DOMAIN tries : Len(tries[u]) >= 2

\* ------------------------------------------------------------------------
\* Concurrency of the page fetches (specification Spec)
\* ------------------------------------------------------------------------
\* permits of the semaphore that are taken
InFlight == DefaultMaxConcurrent - semaphore

\* scan() is inside _fetch_with_retry
Fetching == pc \in {"fetch", "backoff"}

C25_Permits ==
  /\ InFlight \in {0, 1}
  /\ InFlight <= DefaultMaxConcurrent
  /\ InFlight = 1 <=> Fetching
  /\ Fetching => cur.url \in DOMAIN fetch_calls

\* a request is made under the permit, for the URL the loop is at
C25_UnderPermit ==
  tries' # tries
    => /\ InFlight = 1
       /\ DOMAIN tries' = DOMAIN tries \cup {cur.url}
       /\ \A u \in DOMAIN tries : u # cur.url => tries'[u] = tries[u]

\* C25: during a crawl the number of page fetches in flight never exceeds
\* max_concurrent, and in fact never exceeds 1: the permit is acquired before
\* and released after each fetch inside one sequential loop, so no two URLs
\* of a crawl are being fetched at the same time
C25_OneInFlight == [](C25_Permits) /\ [][C25_UnderPermit]_vars

\* the second page of a crawl is being fetched, the first permit given back
C25_Witness ==
  /\ pc = "fetch"
  /\ InFlight = 1
  /\ Len(nodes) = 1
  /\ cur.url \notin NodeUrls

\* ------------------------------------------------------------------------
\* Order of discovery (specification Spec)
\* ------------------------------------------------------------------------
IsDiscovery(e) == e.type = "node_discovered"

Discoveries == SelectSeq(events, IsDiscovery)

\* d is the sequence of the node_discovered events
Ordered(d) ==
  /\ \A i \in 1..(Len(d) - 1) : d[i].depth <= d[i + 1].depth
  /\ d # <<>> => d[1].depth = 0 /\ d[1].url = start_url
  /\ (d # <<>> /\ queue # <<>>) => d[Len(d)].depth <= Head(queue).depth
  /\ \A i, j \in 1..Len(d) : d[i].url = d[j].url => i = j
  /\ \A i \in 1..Len(nodes) :
       \E k \in 1..Len(d) :
         /\ d[k].id = nodes[i].id
         /\ d[k].url = nodes[i].url
         /\ d[k].depth = nodes[i].depth

C26_Order ==
  /\ Ordered(Discoveries)
  /\ \A i \in 1..(Len(queue) - 1) : queue[i].depth <= queue[i + 1].depth

\* a node_discovered event was emitted in this step
Discovering ==
  /\ Len(events') = Len(events) + 1
  /\ IsDiscovery(events'[Len(events')])

\* a node keeps its depth, and a discovery is the dequeue of the queue's head
C26_FirstDequeue ==
  /\ Len(nodes') >= Len(nodes)
  /\ \A i \in 1..Len(nodes) :
       nodes'[i].url = nodes[i].url /\ nodes'[i].depth = nodes[i].depth
  /\ Discovering
       => /\ queue # <<>>
          /\ events'[Len(events')].url = Head(queue).url
          /\ events'[Len(events')].depth = Head(queue).depth
          /\ Head(queue).url \notin visited

\* C26: node_discovered events are emitted in breadth-first order: their
\* depths are non-decreasing, the first has depth 0 and is the start URL, and
\* a node's depth is the depth at which it was first dequeued (a later
\* rediscovery at another depth never changes it)
C26_BreadthFirst == [](C26_Order) /\ [][C26_FirstDequeue]_vars

\* pages of depth 0, 1 and 1 were discovered, and a URL already visited
\* waits in the queue at another depth than its node's
C26_Witness ==
  /\ Len(Discoveries) = 3
  /\ Discoveries[3].depth = 1
  /\ \E i \in 1..Len(queue) : \E k \in 1..Len(nodes) :
       queue[i].url = nodes[k].url /\ queue[i].depth # nodes[k].depth

\* ------------------------------------------------------------------------
\* Edges and depths (specification Spec)
\* ------------------------------------------------------------------------
StoredIds == {nodes[i].id : i \in 1..Len(nodes)}

StoredNode(id) == nodes[CHOOSE i \in 1..Len(nodes) : nodes[i].id = id]

InSeq(x, seq) == \E k \in 1..Len(seq) : seq[k] = x

\* the target is one level below its source and is a link of the source's
\* page; a target that is not stored yet is the page being fetched
C27_Edge(e) ==
  /\ e.source \in StoredIds
  /\ IF e.target \in StoredIds
     THEN /\ StoredNode(e.target).depth = StoredNode(e.source).depth + 1
          /\ InSeq(StoredNode(e.target).url, StoredNode(e.source).links)
     ELSE /\ e.target = cur.node_id
          /\ cur.depth = StoredNode(e.source).depth + 1
          /\ InSeq(cur.url, StoredNode(e.source).links)

C27_Edges == \A i \in 1..Len(links) : C27_Edge(links[i])

\* the edge is made for the page just dequeued and the page that queued it
C27_NewEdge ==
  links' # links
    => /\ links' = Append(links, [source |-> NodeOf(cur.parent).id,
                                  target |-> cur.node_id])
       /\ cur.depth = NodeOf(cur.parent).depth + 1
       /\ InSeq(cur.url, NodeOf(cur.parent).links)

\* C27: for every edge (source, target) in links, depth(target) =
\* depth(source) + 1, and the target URL is a member of the link set recorded
\* for the source node
C27_EdgeDepths == [](C27_Edges) /\ [][C27_NewEdge]_vars

\* an edge from the start page to a page of depth 1 and one from there to a
\* page of depth 2, both targets stored
C27_Witness ==
  /\ Len(links) >= 2
  /\ \E i \in 1..Len(links) :
       /\ links[i].target \in StoredIds
       /\ StoredNode(links[i].source).depth = 1
       /\ StoredNode(links[i].target).depth = 2

\* ------------------------------------------------------------------------
\* The URLs of the nodes (specification Spec)
\* ------------------------------------------------------------------------
\* a URL that _normalize_url returns unchanged
Canonical(url) == _normalize_url(url, start_url, base_domain, base_scheme) = url

\* scheme and host of the start URL
InOrigin(url) ==
  /\ urlparse(url, <<>>).scheme = base_scheme
  /\ urlparse(url, <<>>).netloc = base_domain

\* C28: every URL that becomes a page node in a crawl, the start URL
\* included, is in canonical form (a fixed point of _normalize_url: http or
\* https, no query, no fragment, no trailing slash but the bare root's) and
\* belongs to the crawl's origin
C28_CanonicalNodes ==
  \A i \in 1..Len(nodes) : Canonical(nodes[i].url) /\ InOrigin(nodes[i].url)

\* the nodes that came out of _normalize_url: all but the start node
C28_LinkedNodes ==
  \A i \in 1..Len(nodes) :
    nodes[i].url # start_url
      => /\ Canonical(nodes[i].url)
         /\ urlparse(nodes[i].url, <<>>).netloc = base_domain

C28_StartNode ==
  \A i \in 1..Len(nodes) :
    nodes[i].url = start_url => Canonical(nodes[i].url)

\* ------------------------------------------------------------------------
\* The result of one fetch (specification Spec)
\* ------------------------------------------------------------------------
\* the answer to the request just made
LastAnswer == tries'[cur.url][Len(tries'[cur.url])]

\* _fetch_with_retry returns the result of _fetch_page for that answer
Returned == tries' # tries /\ pc' = "record"

InOrder(r) ==
  /\ r.status_code >= 400 => r.status = "necrosis"
  /\ (r.status_code < 400 /\ r.latency > LatencyThreshold)
       => r.status = "blockage"
  /\ (r.status_code < 400 /\ r.latency <= LatencyThreshold)
       => r.status = "healthy"

LinkSet(r) ==
  /\ r.links # <<>> => r.status_code = 200
  /\ \A i, j \in 1..Len(r.links) : r.links[i] = r.links[j] => i = j
  /\ \A i \in 1..Len(r.links) : r.links[i] # r.url

C29_Result ==
  Returned
    => /\ result'.url = cur.url
       /\ LastAnswer.kind = "http"
            => /\ result'.status_code = LastAnswer.code
               /\ result'.latency = LastAnswer.latency
               /\ InOrder(result')
       /\ LastAnswer.kind = "timeout"
            => /\ result'.status_code = 408
               /\ result'.status = "necrosis"
       /\ LinkSet(result')

\* what is stored for a page that answered (status_code 0 is no answer)
C29_Stored ==
  \A i \in 1..Len(nodes) :
    /\ nodes[i].status_code # 0 => InOrder(nodes[i])
    /\ LinkSet(nodes[i])

\* C29: a completed HTTP response is classified in this order: status_code
\* >= 400 gives necrosis; otherwise latency > latency_threshold gives
\* blockage; otherwise healthy; a transport timeout is recorded as
\* status_code 408 with necrosis; and the link set of a result is non-empty
\* only if status_code = 200, holds no duplicates and never the page's own URL
C29_Classification == [](C29_Stored) /\ [][C29_Result]_vars

\* a page with links, and a page that answered 503 slowly and is dead
C29_Witness ==
  /\ \E i \in 1..Len(nodes) : Len(nodes[i].links) >= 2
  /\ \E i \in 1..Len(nodes) :
       /\ nodes[i].status_code = 503
       /\ nodes[i].latency > LatencyThreshold
       /\ nodes[i].status = "necrosis"

\* a page that timed out
C29_WitnessTimeout ==
  \E i \in 1..Len(nodes) :
    nodes[i].status_code = 408 /\ nodes[i].status = "necrosis"

\* ------------------------------------------------------------------------
\* The counters (specification Spec)
\* ------------------------------------------------------------------------
\* the head of the while loop of line 263, and the end of scan()
AtBoundary == pc \in {"loop", "completed", "limit_reached"}

C30_Counted ==
  AtBoundary
    => /\ stats.total_pages = Len(nodes)
       /\ Cardinality(NodeUrls) = Len(nodes)
       /\ visited = NodeUrls
       /\ stats.dead_links = CountStatus("necrosis")
       /\ stats.slow_pages = CountStatus("blockage")
       /\ stats.dead_links + stats.slow_pages <= stats.total_pages

C30_Grows ==
  /\ stats'.total_pages >= stats.total_pages
  /\ stats'.dead_links >= stats.dead_links
  /\ stats'.slow_pages >= stats.slow_pages
  /\ visited \subseteq visited'

\* C30: at every loop-iteration boundary of scan() and at its end,
\* total_pages = |nodes| = |visited|, dead_links is the number of nodes with
\* status necrosis, slow_pages the number with status blockage, dead_links +
\* slow_pages <= total_pages, and none of these counters nor the visited set
\* ever decreases during the crawl
C30_Counters == [](C30_Counted) /\ [][C30_Grows]_vars

\* the loop head after three pages, one of them dead
C30_Witness ==
  /\ pc = "loop"
  /\ stats.total_pages = 3
  /\ stats.dead_links = 1
  /\ Cardinality(visited) = 3

====
